---- MODULE Spec2Model ----
(***************************************************************************)
(* Streaming text-to-speech relay (said4244/elevenlabs_phonemes).          *)
(*                                                                         *)
(*   server/agent_direct.py  DirectTTSClient: the text bufferer            *)
(*   server/tts_streamer.py  ElevenLabsStreamingSession / ElevenLabsStreamer*)
(*   server/ws_server.py     TTSBroadcaster: the session coordinator       *)
(*                                                                         *)
(* Text is a sequence of characters, each character a one-element string   *)
(* (the Arabic marks are written by code point, "U+061F").                 *)
(***************************************************************************)
EXTENDS Integers, Sequences, FiniteSets, TLC

VARIABLES
    \* ---- DirectTTSClient (agent_direct.py) ----
    buffer,             \* _buffer
    buffer_threshold,   \* _buffer_threshold
    connected,          \* _connected
    first_chunk_sent,   \* _first_chunk_sent
    sent_messages,      \* what _ws.send_json accepted, in order
    n_fragments,        \* append_text calls made so far
    n_failures,         \* connect() and send_json calls that raised so far
    last_call,          \* the last call on the client and how it ended
    script,             \* the token list a scripted run feeds ("none": free run)
    script_pos,         \* tokens of the script fed so far
    mock,               \* a MockDirectTTSClient given the same calls
    agent               \* the DirectStreamingAgent that owns the client

bufVars == <<buffer, buffer_threshold, connected, first_chunk_sent,
             sent_messages, n_fragments, n_failures, last_call, script,
             script_pos, mock, agent>>

VARIABLES
    \* ---- one upstream stream, as its consumer sees it (tts_streamer.py) ----
    recv_path,          \* "session": receive_audio; "streamer": stream_text
    recv_sess,          \* the ElevenLabsStreamingSession / stream_text's locals
    recv_status,        \* "open", "ended" (final chunk yielded) or "raised"
    recv_out,           \* the AudioChunks yielded so far
    recv_in,            \* the provider's audio messages behind the yielded chunks
    sess_call           \* the last call made on the session, and the calls before

recvVars == <<recv_path, recv_sess, recv_status, recv_out, recv_in, sess_call>>

VARIABLES
    \* ---- TTSBroadcaster (ws_server.py) ----
    flutter_clients,    \* _flutter_clients
    agent_ws,           \* _agent_ws: "none" is None, else a producer connection
    el_session,         \* _el_session: <<>> is None, <<s>> a session
    audio_task,         \* _audio_task: "none" is None, else where the task is
    is_streaming,       \* _is_streaming
    lock,               \* _lock: "free" or the producer call holding it
    waiters,            \* the calls queued on _lock, first come first
    full_text,          \* _full_text
    all_chars,          \* _all_chars
    all_times,          \* _all_times
    all_durations,      \* _all_durations
    total_audio_ms,     \* _total_audio_ms
    chunk_count,        \* _chunk_count
    \* ---- the tasks around it ----
    pc,                 \* per producer connection: where its handler call is
    call,               \* per producer connection: its current or last call
    agent_conn,         \* per producer connection: closed, or its endpoint and role
    bc,                 \* the broadcast_to_clients call in progress
    conn,               \* per consumer: its websocket
    inbox,              \* per consumer: the events its websocket accepted
    shot,               \* per consumer: its handle_single_shot call
    utt,                \* the current utterance, as its callers drove it
    n_calls,            \* producer calls made so far
    n_shots,            \* single-shot requests made so far
    n_grown,            \* additions to the set under a suspended broadcast, followed
    limits              \* how many calls and requests a run makes, and who connects

coordVars == <<flutter_clients, el_session, audio_task, is_streaming, lock,
               waiters, full_text, all_chars, all_times, all_durations,
               total_audio_ms, chunk_count, pc, call, bc, conn, inbox,
               shot, utt, n_calls, n_shots, n_grown, limits, agent_ws,
               agent_conn>>

vars == <<bufVars, recvVars, coordVars>>

notBufVars == <<recvVars, coordVars>>
notRecvVars == <<bufVars, coordVars>>
notCoordVars == <<bufVars, recvVars>>

(***************************************************************************)
(* Characters and Python's str helpers                                     *)
(***************************************************************************)
Space == " "
\* str.strip() / str.rstrip() with no argument strip these (of the model's alphabet)
Whitespace == {" ", "\n", "\t"}
\* agent_direct.py:123
SentenceEnd == {".", "!", "?", "U+061F", "U+061E"}
\* agent_direct.py:136
Commas == {",", "U+060C"}

RECURSIVE Rep(_, _)
Rep(c, n) == IF n = 0 THEN <<>> ELSE <<c>> \o Rep(c, n - 1)

RECURSIVE RStrip(_)
RStrip(s) ==
    IF s = <<>> THEN <<>>
    ELSE IF s[Len(s)] \in Whitespace THEN RStrip(SubSeq(s, 1, Len(s) - 1))
    ELSE s

\* s.strip() is non-empty: some character is not whitespace
StripNonEmpty(s) == \E i \in 1..Len(s) : s[i] \notin Whitespace

EndsWithSpace(s) == s # <<>> /\ s[Len(s)] = Space

\* s[-n:] if len(s) > n else s
LastChars(s, n) == IF Len(s) > n THEN SubSeq(s, Len(s) - n + 1, Len(s)) ELSE s

Contains(s, cs) == \E i \in 1..Len(s) : s[i] \in cs

(***************************************************************************)
(* DirectTTSClient                                                         *)
(***************************************************************************)
MinPunctLen == 10
TailWindow == 20

ShouldFlush_NoHardCap(buf, thr) ==
    /\ buf # <<>>
    /\ \/ (Len(buf) >= MinPunctLen
            /\ RStrip(buf) # <<>> /\ RStrip(buf)[Len(RStrip(buf))] \in SentenceEnd)
       \/ (Len(buf) >= thr
            /\ (Contains(LastChars(buf, TailWindow), Commas) \/ EndsWithSpace(buf)))

\* _should_flush_buffer
ShouldFlushBuffer(buf, thr) ==
    IF buf = <<>> THEN FALSE
    ELSE IF Len(buf) >= thr * 2 THEN TRUE
    ELSE IF Len(buf) >= MinPunctLen
            /\ RStrip(buf) # <<>>
            /\ RStrip(buf)[Len(RStrip(buf))] \in SentenceEnd THEN TRUE
    ELSE IF Len(buf) >= thr
            /\ (Contains(LastChars(buf, TailWindow), Commas) \/ EndsWithSpace(buf)) THEN TRUE
    ELSE FALSE

TextToSend_Always(buf) == buf \o <<Space>>

TextToSend_Never(buf) == buf

\* _flush_buffer, lines 153-155: the text handed to send_json
TextToSend(buf) == IF EndsWithSpace(buf) THEN buf ELSE buf \o <<Space>>

AppendMsg(text) == [action |-> "append_tts", text |-> text]
FinishMsg == [action |-> "finish_tts", text |-> <<>>]

FlushBuffer_NoStripGuard(c, send_ok) ==
    IF send_ok
    THEN [c EXCEPT !.buffer = <<>>, !.first_chunk_sent = TRUE,
                   !.sent = c.sent \o <<AppendMsg(TextToSend(c.buffer))>>]
    ELSE [c EXCEPT !.connected = FALSE, !.raised = TRUE, !.failures = c.failures + 1]

FlushBuffer_DropsOnFailure(c, send_ok) ==
    IF ~StripNonEmpty(c.buffer) THEN c
    ELSE IF send_ok
    THEN [c EXCEPT !.buffer = <<>>, !.first_chunk_sent = TRUE,
                   !.sent = c.sent \o <<AppendMsg(TextToSend(c.buffer))>>]
    ELSE [c EXCEPT !.buffer = <<>>, !.connected = FALSE, !.raised = TRUE,
                   !.failures = c.failures + 1]

FlushBuffer_KeepsPending(c, send_ok) ==
    IF ~StripNonEmpty(c.buffer) THEN c
    ELSE IF send_ok
    THEN [c EXCEPT !.first_chunk_sent = TRUE,
                   !.sent = c.sent \o <<AppendMsg(TextToSend(c.buffer))>>]
    ELSE [c EXCEPT !.connected = FALSE, !.raised = TRUE, !.failures = c.failures + 1]

\* _flush_buffer on the client record c; send_ok: whether _ws.send_json returns
FlushBuffer(c, send_ok) ==
    IF ~StripNonEmpty(c.buffer) THEN c
    ELSE IF send_ok
    THEN [c EXCEPT !.buffer = <<>>, !.first_chunk_sent = TRUE,
                   !.sent = c.sent \o <<AppendMsg(TextToSend(c.buffer))>>]
    ELSE [c EXCEPT !.connected = FALSE, !.raised = TRUE, !.failures = c.failures + 1]

\* the client as a record, for the operators above
Client == [buffer |-> buffer, connected |-> connected,
           first_chunk_sent |-> first_chunk_sent, sent |-> sent_messages,
           raised |-> FALSE, failures |-> n_failures]

\* append_text(text): connect_ok is the outcome of connect() when it is needed
AppendText(c, text, thr, connect_ok, send_ok) ==
    IF ~c.connected /\ ~connect_ok
    THEN [c EXCEPT !.raised = TRUE, !.failures = c.failures + 1]
    ELSE LET c1 == [c EXCEPT !.connected = TRUE, !.buffer = c.buffer \o text]
         IN IF ShouldFlushBuffer(c1.buffer, thr) THEN FlushBuffer(c1, send_ok) ELSE c1

\* finish_stream(): flush_ok, finish_ok are the outcomes of the two send_json calls
FinishStream(c, flush_ok, finish_ok) ==
    IF ~c.connected THEN c
    ELSE LET c1 == IF StripNonEmpty(c.buffer) THEN FlushBuffer(c, flush_ok) ELSE c
         IN IF c1.raised THEN [c1 EXCEPT !.raised = FALSE]
            ELSE IF ~finish_ok THEN [c1 EXCEPT !.failures = c1.failures + 1]
            ELSE [c1 EXCEPT !.buffer = <<>>, !.first_chunk_sent = FALSE,
                            !.sent = c1.sent \o <<FinishMsg>>]

(***************************************************************************)
(* test_buffering_simple.py: MockDirectTTSClient                           *)
(***************************************************************************)
\* MockDirectTTSClient.__init__; sent: sent_messages
NewMock == [buffer |-> <<>>, first_chunk_sent |-> FALSE, sent |-> <<>>]

\* MockDirectTTSClient._should_flush_buffer
MockShouldFlushBuffer(buf, thr) ==
    IF buf = <<>> THEN FALSE
    ELSE IF Len(buf) >= thr * 2 THEN TRUE
    ELSE IF Len(buf) >= 10
            /\ RStrip(buf) # <<>>
            /\ RStrip(buf)[Len(RStrip(buf))] \in {".", "!", "?", "U+061F", "U+061E"}
         THEN TRUE
    ELSE IF Len(buf) >= thr
            /\ (Contains(LastChars(buf, 20), {",", "U+060C"}) \/ EndsWithSpace(buf))
         THEN TRUE
    ELSE FALSE

MockFinishStream_KeepBlank(m) ==
    LET m1 == IF StripNonEmpty(m.buffer)
              THEN [m EXCEPT !.sent = Append(@, AppendMsg(TextToSend(m.buffer))),
                             !.buffer = <<>>, !.first_chunk_sent = TRUE]
              ELSE m
    IN [m1 EXCEPT !.first_chunk_sent = FALSE]

\* MockDirectTTSClient._flush_buffer
MockFlushBuffer(m) ==
    IF ~StripNonEmpty(m.buffer) THEN m
    ELSE [m EXCEPT !.sent = Append(@, [action |-> "append_tts",
                                       text |-> IF EndsWithSpace(m.buffer)
                                                THEN m.buffer
                                                ELSE m.buffer \o <<Space>>]),
                   !.buffer = <<>>, !.first_chunk_sent = TRUE]

\* MockDirectTTSClient.append_text(text)
MockAppendText(m, text, thr) ==
    LET m1 == [m EXCEPT !.buffer = @ \o text]
    IN IF MockShouldFlushBuffer(m1.buffer, thr) THEN MockFlushBuffer(m1) ELSE m1

\* MockDirectTTSClient.finish_stream()
MockFinishStream(m) ==
    LET m1 == IF StripNonEmpty(m.buffer) THEN MockFlushBuffer(m) ELSE m
    IN [m1 EXCEPT !.buffer = <<>>, !.first_chunk_sent = FALSE]

(***************************************************************************)
(* The producer's calls on DirectTTSClient                                 *)
(***************************************************************************)
\* bounds of the free run: append_text calls, and failed connects and sends
MaxAppends == 3
MaxFailures == 1

\* buffer_threshold values the free run constructs the client with
Thresholds == {2, 6, 11}

\* fragments the free run appends
Fragments ==
    { <<"x">>, <<" ">>, <<"\n">>, <<".">>, <<",">>, <<".", " ">>,
      Rep("x", 5), Rep("x", 10), Rep("x", 12) }

\* DirectStreamingAgent.__init__ and start(): _is_processing; streaming: it
\* is in the token loop of _stream_llm_response; response: the responses
\* begun; calls: its calls on the client, each with its response
NoAgent == [is_processing |-> FALSE, streaming |-> FALSE, response |-> 0,
            calls |-> <<>>]

NoCall == [op |-> "none", text |-> <<>>, pre |-> <<>>, raised |-> FALSE,
           was_connected |-> FALSE, n_sent |-> 0]

\* the segments (append_tts texts) among the messages ms
RECURSIVE Segments(_)
Segments(ms) ==
    IF ms = <<>> THEN <<>>
    ELSE (IF ms[1].action = "append_tts" THEN <<ms[1].text>> ELSE <<>>)
         \o Segments(SubSeq(ms, 2, Len(ms)))

\* the messages the last call sent
Emitted == SubSeq(sent_messages, last_call.n_sent + 1, Len(sent_messages))

InitBufFree ==
    /\ buffer = <<>>
    /\ buffer_threshold \in Thresholds
    /\ connected = FALSE
    /\ first_chunk_sent = FALSE
    /\ sent_messages = <<>>
    /\ n_fragments = 0
    /\ n_failures = 0
    /\ last_call = NoCall
    /\ script = "none"
    /\ script_pos = 0
    /\ mock = NewMock
    /\ agent = NoAgent

\* await client.append_text(text)
ClientAppend ==
    \E text \in Fragments, connect_ok \in BOOLEAN, send_ok \in BOOLEAN :
        /\ script = "none"
        /\ n_fragments < MaxAppends
        /\ LET c == AppendText(Client, text, buffer_threshold, connect_ok, send_ok)
           IN /\ c.failures <= MaxFailures
              /\ buffer' = c.buffer
              /\ connected' = c.connected
              /\ first_chunk_sent' = c.first_chunk_sent
              /\ sent_messages' = c.sent
              /\ n_failures' = c.failures
              /\ n_fragments' = n_fragments + 1
              /\ last_call' = [op |-> "append", text |-> text, pre |-> buffer,
                               raised |-> c.raised, was_connected |-> connected,
                               n_sent |-> Len(sent_messages)]
        /\ UNCHANGED <<buffer_threshold, script, script_pos, mock>>
        /\ UNCHANGED notBufVars

\* await client.finish_stream()
ClientFinish ==
    \E flush_ok \in BOOLEAN, finish_ok \in BOOLEAN :
        /\ script = "none"
        /\ LET c == FinishStream(Client, flush_ok, finish_ok)
           IN /\ c.failures <= MaxFailures
              /\ n_failures' = c.failures
              /\ buffer' = c.buffer
              /\ connected' = c.connected
              /\ first_chunk_sent' = c.first_chunk_sent
              /\ sent_messages' = c.sent
              /\ last_call' = [op |-> "finish", text |-> <<>>, pre |-> buffer,
                               raised |-> c.raised, was_connected |-> connected,
                               n_sent |-> Len(sent_messages)]
        /\ UNCHANGED <<buffer_threshold, n_fragments, script, script_pos, mock>>
        /\ UNCHANGED notBufVars

\* the calls of a caller that is free to make any
BufAppend == ClientAppend /\ UNCHANGED agent
BufFinish == last_call.op # "finish" /\ ClientFinish /\ UNCHANGED agent

(***************************************************************************)
(* DirectStreamingAgent: the responses it streams to its client            *)
(***************************************************************************)
\* responses of a run
MaxResponses == 2

InitBufAgent ==
    /\ buffer = <<>>
    /\ buffer_threshold \in Thresholds
    /\ connected = TRUE
    /\ first_chunk_sent = FALSE
    /\ sent_messages = <<>>
    /\ n_fragments = 0
    /\ n_failures = 0
    /\ last_call = NoCall
    /\ script = "none"
    /\ script_pos = 0
    /\ mock = NewMock
    /\ agent = NoAgent

\* _transcribe_and_respond finds _is_processing false, sets it, and with a
\* transcript reaches _stream_llm_response, which opens the LLM stream
AgentRespond ==
    /\ ~agent.is_processing
    /\ agent.response < MaxResponses
    /\ agent' = [agent EXCEPT !.is_processing = TRUE, !.streaming = TRUE,
                              !.response = @ + 1]
    /\ UNCHANGED <<buffer, buffer_threshold, connected, first_chunk_sent,
                   sent_messages, n_fragments, n_failures, last_call, script,
                   script_pos, mock>>
    /\ UNCHANGED notBufVars

\* the stream gives a token: await self.tts_client.append_text(token); when
\* that raises the except clause ends the response
AgentToken ==
    /\ agent.streaming
    /\ ClientAppend
    /\ agent' = [agent EXCEPT
                    !.calls = Append(@, [op |-> "append", response |-> agent.response]),
                    !.streaming = ~last_call'.raised,
                    !.is_processing = ~last_call'.raised]

\* opening or reading the LLM stream raises: the except clause ends the
\* response
AgentStreamFails ==
    /\ agent.streaming
    /\ agent' = [agent EXCEPT !.streaming = FALSE, !.is_processing = FALSE]
    /\ UNCHANGED <<buffer, buffer_threshold, connected, first_chunk_sent,
                   sent_messages, n_fragments, n_failures, last_call, script,
                   script_pos, mock>>
    /\ UNCHANGED notBufVars

\* the stream is exhausted: await self.tts_client.finish_stream()
AgentStreamEnds ==
    /\ agent.streaming
    /\ ClientFinish
    /\ agent' = [agent EXCEPT
                    !.calls = Append(@, [op |-> "finish", response |-> agent.response]),
                    !.streaming = FALSE, !.is_processing = FALSE]

(***************************************************************************)
(* The same calls made on a connected DirectTTSClient whose sends succeed  *)
(* (as TestTTSClient over MockWebSocket is) and on a MockDirectTTSClient   *)
(***************************************************************************)
InitBufBoth ==
    /\ buffer = <<>>
    /\ buffer_threshold \in Thresholds
    /\ connected = TRUE
    /\ first_chunk_sent = FALSE
    /\ sent_messages = <<>>
    /\ n_fragments = 0
    /\ n_failures = 0
    /\ last_call = NoCall
    /\ script = "none"
    /\ script_pos = 0
    /\ mock = NewMock
    /\ agent = NoAgent

\* await client.append_text(text) on both
BothAppend ==
    \E text \in Fragments :
        /\ n_fragments < MaxAppends
        /\ LET c == AppendText(Client, text, buffer_threshold, TRUE, TRUE)
           IN /\ buffer' = c.buffer
              /\ connected' = c.connected
              /\ first_chunk_sent' = c.first_chunk_sent
              /\ sent_messages' = c.sent
              /\ last_call' = [op |-> "append", text |-> text, pre |-> buffer,
                               raised |-> c.raised, was_connected |-> connected,
                               n_sent |-> Len(sent_messages)]
        /\ mock' = MockAppendText(mock, text, buffer_threshold)
        /\ n_fragments' = n_fragments + 1
        /\ UNCHANGED <<buffer_threshold, n_failures, script, script_pos, agent>>
        /\ UNCHANGED notBufVars

\* await client.finish_stream() on both
BothFinish ==
    /\ last_call.op # "finish"
    /\ LET c == FinishStream(Client, TRUE, TRUE)
       IN /\ buffer' = c.buffer
          /\ connected' = c.connected
          /\ first_chunk_sent' = c.first_chunk_sent
          /\ sent_messages' = c.sent
          /\ last_call' = [op |-> "finish", text |-> <<>>, pre |-> buffer,
                           raised |-> c.raised, was_connected |-> connected,
                           n_sent |-> Len(sent_messages)]
    /\ mock' = MockFinishStream(mock)
    /\ UNCHANGED <<buffer_threshold, n_fragments, n_failures, script, script_pos,
                   agent>>
    /\ UNCHANGED notBufVars

(***************************************************************************)
(* test_buffering.py: TestTTSClient over MockWebSocket, fed a token list   *)
(***************************************************************************)
CountingTokens ==
    << <<"1">>, <<",">>, <<" ">>, <<"2">>, <<",">>, <<" ">>, <<"3">>, <<",">>, <<" ">>,
       <<"4">>, <<",">>, <<" ">>, <<"5">>, <<",">>, <<" ">>, <<"6">>, <<",">>, <<" ">>,
       <<"7">>, <<",">>, <<" ">>, <<"8">>, <<",">>, <<" ">>, <<"9">>, <<",">>, <<" ">>,
       <<"1", "0">>, <<",">>, <<" ">>, <<"1", "1">>, <<",">>, <<" ">>, <<"1", "2">>,
       <<",">>, <<" ">>, <<"1", "3">>, <<",">>, <<" ">>, <<"1", "4">>, <<",">>, <<" ">>,
       <<"1", "5">> >>

SentenceTokens ==
    << <<"U+0645", "U+0631", "U+062D", "U+0628", "U+0627">>, <<" ">>,
       <<"U+0628", "U+0627", "U+0644", "U+0639", "U+0627", "U+0644", "U+0645">>,
       <<"U+060C">>, <<" ">>, <<"U+0643", "U+064A", "U+0641">>, <<" ">>,
       <<"U+062D", "U+0627", "U+0644", "U+0643">>, <<" ">>,
       <<"U+0627", "U+0644", "U+064A", "U+0648", "U+0645">>, <<"U+061F">>, <<" ">>,
       <<"U+0623", "U+062A", "U+0645", "U+0646", "U+0649">>, <<" ">>,
       <<"U+0623", "U+0646">>, <<" ">>, <<"U+062A", "U+0643", "U+0648", "U+0646">>,
       <<" ">>, <<"U+0628", "U+062E", "U+064A", "U+0631">>, <<".">> >>

LongResponseText ==
    <<"T", "h", "i", "s", " ", "i", "s", " ", "a", " ", "m", "u", "c", "h", " ", "l",
      "o", "n", "g", "e", "r", " ", "r", "e", "s", "p", "o", "n", "s", "e", " ", "t",
      "h", "a", "t", " ", "s", "h", "o", "u", "l", "d", " ", "d", "e", "m", "o", "n",
      "s", "t", "r", "a", "t", "e", " ", "h", "o", "w", " ", "t", "h", "e", " ", "b",
      "u", "f", "f", "e", "r", "i", "n", "g", " ", "w", "o", "r", "k", "s", " ", "w",
      "i", "t", "h", " ", "l", "a", "r", "g", "e", "r", " ", "c", "h", "u", "n", "k",
      "s", ".", " ", "I", "t", " ", "s", "h", "o", "u", "l", "d", " ", "f", "l", "u",
      "s", "h", " ", "a", "t", " ", "s", "e", "n", "t", "e", "n", "c", "e", " ", "b",
      "o", "u", "n", "d", "a", "r", "i", "e", "s", " ", "a", "n", "d", " ", "w", "h",
      "e", "n", " ", "t", "h", "e", " ", "b", "u", "f", "f", "e", "r", " ", "g", "e",
      "t", "s", " ", "t", "o", "o", " ", "l", "a", "r", "g", "e", ".", " ", "T", "h",
      "i", "s", " ", "h", "e", "l", "p", "s", " ", "p", "r", "e", "v", "e", "n", "t",
      " ", "o", "v", "e", "r", "l", "a", "p", "p", "i", "n", "g", " ", "a", "u", "d",
      "i", "o", " ", "s", "t", "r", "e", "a", "m", "s", " ", "w", "h", "i", "l", "e",
      " ", "m", "a", "i", "n", "t", "a", "i", "n", "i", "n", "g", " ", "r", "e", "a",
      "s", "o", "n", "a", "b", "l", "e", " ", "l", "a", "t", "e", "n", "c", "y", " ",
      "f", "o", "r", " ", "t", "h", "e", " ", "u", "s", "e", "r", " ", "e", "x", "p",
      "e", "r", "i", "e", "n", "c", "e", ".">>

\* test_long_response streams the text character by character
LongResponseTokens == [i \in 1..Len(LongResponseText) |-> <<LongResponseText[i]>>]

Scripts == {"counting", "sentence", "long"}

ScriptTokens(s) ==
    CASE s = "counting" -> CountingTokens
      [] s = "sentence" -> SentenceTokens
      [] s = "long" -> LongResponseTokens
      [] OTHER -> <<>>

\* TestTTSClient(buffer_threshold=...)
ScriptThreshold(s) == IF s = "long" THEN 80 ELSE 50

\* TestTTSClient.__init__
InitBufScript ==
    /\ script \in Scripts
    /\ script_pos = 0
    /\ mock = NewMock
    /\ agent = NoAgent
    /\ buffer = <<>>
    /\ buffer_threshold = ScriptThreshold(script)
    /\ connected = TRUE
    /\ first_chunk_sent = FALSE
    /\ sent_messages = <<>>
    /\ n_fragments = 0
    /\ n_failures = 0
    /\ last_call = NoCall

\* MockWebSocket.send_json never fails
MockSendOk == TRUE

\* for token in tokens: await client.append_text(token)
ScriptAppend ==
    /\ script \in Scripts
    /\ script_pos < Len(ScriptTokens(script))
    /\ LET text == ScriptTokens(script)[script_pos + 1]
           c == AppendText(Client, text, buffer_threshold, TRUE, MockSendOk)
       IN /\ buffer' = c.buffer
          /\ connected' = c.connected
          /\ first_chunk_sent' = c.first_chunk_sent
          /\ sent_messages' = c.sent
          /\ last_call' = [op |-> "append", text |-> text, pre |-> buffer,
                           raised |-> c.raised, was_connected |-> connected,
                           n_sent |-> Len(sent_messages)]
    /\ n_fragments' = n_fragments + 1
    /\ script_pos' = script_pos + 1
    /\ UNCHANGED <<buffer_threshold, n_failures, script, mock, agent>>
    /\ UNCHANGED notBufVars

\* await client.finish_stream(), after the last token
ScriptFinish ==
    /\ script \in Scripts
    /\ script_pos = Len(ScriptTokens(script))
    /\ last_call.op # "finish"
    /\ LET c == FinishStream(Client, MockSendOk, MockSendOk)
       IN /\ buffer' = c.buffer
          /\ connected' = c.connected
          /\ first_chunk_sent' = c.first_chunk_sent
          /\ sent_messages' = c.sent
          /\ last_call' = [op |-> "finish", text |-> <<>>, pre |-> buffer,
                           raised |-> c.raised, was_connected |-> connected,
                           n_sent |-> Len(sent_messages)]
    /\ UNCHANGED <<buffer_threshold, n_fragments, n_failures, script, script_pos,
                   mock, agent>>
    /\ UNCHANGED notBufVars


(***************************************************************************)
(* tts_streamer.py: what the provider sends, and how a chunk is built      *)
(***************************************************************************)
\* A JSON value that may be missing or null: a list is Some(list) or NoList;
\* an alignment object is a record of such lists with some = TRUE, or NoAlign
\* (the key is missing, null or {}).
Some(v) == [some |-> TRUE, v |-> v]
NoList == [some |-> FALSE, v |-> <<>>]
NoAlign ==
    [some |-> FALSE, charStartTimesMs |-> NoList, char_start_times_ms |-> NoList,
     charDurationsMs |-> NoList, char_durations_ms |-> NoList, chars |-> NoList]

\* Python's "a or b": on lists (None and [] are falsy), on objects
OrList(a, b) == IF a.some /\ a.v # <<>> THEN a ELSE b
OrDict(a, b) == IF a.some THEN a ELSE b

SampleRate == 22050

\* byte lengths below 2,000,000 at which the float expression
\* len / (2 * 22050) * 1000 falls just short of the whole number it stands for
FloatShort ==
    { 88641, 89523, 177282, 179046, 354123, 354564, 357651, 358092, 361179,
      708246, 709128, 714420, 715302, 716184, 721476, 722358 }

\* int(len(audio_bytes) / (2 * 22050) * 1000)
AudioDurationMs(nbytes) ==
    IF nbytes \in FloatShort
    THEN (nbytes * 1000) \div (2 * SampleRate) - 1
    ELSE (nbytes * 1000) \div (2 * SampleRate)

AbsoluteTimes_NoOffset(times, offset_ms) == times

\* [t + offset_ms for t in chunk_char_times]
AbsoluteTimes(times, offset_ms) == [i \in 1..Len(times) |-> times[i] + offset_ms]

\* lines 347-352 (151-156 in stream_text): the three arrays of a message
ChunkAlignment(data) ==
    LET alignment == OrDict(OrDict(data.normalizedAlignment, data.alignment), NoAlign)
    IN [times |-> OrList(OrList(alignment.charStartTimesMs,
                                alignment.char_start_times_ms), Some(<<>>)).v,
        durations |-> OrList(OrList(alignment.charDurationsMs,
                                    alignment.char_durations_ms), Some(<<>>)).v,
        chars |-> OrList(alignment.chars, Some(<<>>)).v]

AudioChunk(nbytes, times, durations, chars, index, final) ==
    [audio_bytes |-> nbytes, char_start_times_ms |-> times,
     char_durations_ms |-> durations, chars |-> chars,
     chunk_index |-> index, is_final |-> final]

FinalChunk(index) == AudioChunk(0, <<>>, <<>>, <<>>, index, TRUE)

\* ElevenLabsStreamingSession.__init__
NewSession ==
    [started |-> FALSE, finished |-> FALSE, first_text_sent |-> FALSE,
     offset_ms |-> 0, chunk_index |-> 0, http |-> FALSE, ws |-> "none",
     out |-> <<>>]

ReceiveMessage_OffsetFirst(s, msg) ==
    LET same == [s |-> s, yielded |-> <<>>, ended |-> FALSE, raised |-> FALSE]
        final == [same EXCEPT !.yielded = <<FinalChunk(s.chunk_index)>>,
                              !.ended = TRUE]
    IN CASE msg.type = "CLOSED" -> final
         [] msg.type = "ERROR" -> final
         [] msg.type # "TEXT" -> same
         [] ~msg.json_ok -> same
         [] msg.has_error -> [same EXCEPT !.raised = TRUE]
         [] msg.isFinal -> final
         [] msg.audio = 0 -> same
         [] OTHER ->
              LET a == ChunkAlignment(msg)
                  d == AudioDurationMs(msg.audio)
              IN [s |-> [s EXCEPT !.offset_ms = s.offset_ms + d,
                                  !.chunk_index = s.chunk_index + 1],
                  yielded |-> <<AudioChunk(msg.audio,
                                           AbsoluteTimes(a.times, s.offset_ms + d),
                                           a.durations, a.chars,
                                           s.chunk_index, FALSE)>>,
                  ended |-> FALSE, raised |-> FALSE]

\* One message taken from the websocket by the loop of receive_audio (and of
\* stream_text, the same code over locals): the session after it, the chunks
\* yielded, and whether the generator ended or raised.
ReceiveMessage(s, msg) ==
    LET same == [s |-> s, yielded |-> <<>>, ended |-> FALSE, raised |-> FALSE]
        final == [same EXCEPT !.yielded = <<FinalChunk(s.chunk_index)>>,
                              !.ended = TRUE]
    IN CASE msg.type = "CLOSED" -> final
         [] msg.type = "ERROR" -> final
         [] msg.type # "TEXT" -> same
         [] ~msg.json_ok -> same
         [] msg.has_error -> [same EXCEPT !.raised = TRUE]
         [] msg.isFinal -> final
         [] msg.audio = 0 -> same
         [] OTHER ->
              LET a == ChunkAlignment(msg)
                  d == AudioDurationMs(msg.audio)
              IN [s |-> [s EXCEPT !.offset_ms = s.offset_ms + d,
                                  !.chunk_index = s.chunk_index + 1],
                  yielded |-> <<AudioChunk(msg.audio,
                                           AbsoluteTimes(a.times, s.offset_ms),
                                           a.durations, a.chars,
                                           s.chunk_index, FALSE)>>,
                  ended |-> FALSE, raised |-> FALSE]

\* receive_audio: raises at once on a session that is not started
ReceiveAudio(s, msg) ==
    IF ~s.started \/ s.ws = "none"
    THEN [s |-> s, yielded |-> <<>>, ended |-> FALSE, raised |-> TRUE]
    ELSE ReceiveMessage(s, msg)

(***************************************************************************)
(* The provider's messages                                                 *)
(***************************************************************************)
Align(names, times, durations, chars) ==
    [some |-> TRUE,
     charStartTimesMs |-> IF names = "camel" THEN times ELSE NoList,
     char_start_times_ms |-> IF names = "snake" THEN times ELSE NoList,
     charDurationsMs |-> IF names = "camel" THEN durations ELSE NoList,
     char_durations_ms |-> IF names = "snake" THEN durations ELSE NoList,
     chars |-> chars]

\* a text frame; audio is the decoded length in bytes, 0 when the "audio" key
\* is missing, null or ""
TextMsg == [type |-> "TEXT", json_ok |-> TRUE, has_error |-> FALSE,
            isFinal |-> FALSE, audio |-> 0,
            normalizedAlignment |-> NoAlign, alignment |-> NoAlign]

AudioMsg(nbytes, norm, plain) ==
    [TextMsg EXCEPT !.audio = nbytes, !.normalizedAlignment = norm,
                    !.alignment = plain]

ControlMsgs ==
    { [TextMsg EXCEPT !.isFinal = TRUE],
      [TextMsg EXCEPT !.has_error = TRUE],
      [TextMsg EXCEPT !.json_ok = FALSE],
      TextMsg,
      [TextMsg EXCEPT !.type = "ERROR"],
      [TextMsg EXCEPT !.type = "CLOSED"],
      [TextMsg EXCEPT !.type = "BINARY"] }

\* alignments a provider message may carry: either naming convention, starts
\* in and out of order, starts beyond the audio, arrays missing or empty
RecvAlignments ==
    { Align("camel", Some(<<0, 100>>), Some(<<100, 400>>), Some(<<"h", "i">>)),
      Align("camel", Some(<<0, 50>>), Some(<<50, 250>>), Some(<<"a", "b">>)),
      Align("snake", Some(<<0, 50>>), Some(<<50, 250>>), Some(<<"a", "b">>)),
      Align("camel", Some(<<100, 0>>), Some(<<10, 10>>), Some(<<"h", "i">>)),
      Align("camel", Some(<<0, 600>>), Some(<<600, 10>>), Some(<<"h", "i">>)),
      Align("camel", Some(<<0>>), Some(<<>>), NoList),
      Align("snake", NoList, NoList, Some(<<"h">>)) }

\* audio sizes: 500 ms, 300 ms and under 1 ms
RecvSizes == {22050, 13230, 2}

RecvMessages ==
    ControlMsgs
    \cup { AudioMsg(n, a, NoAlign) : n \in RecvSizes, a \in RecvAlignments \cup {NoAlign} }
    \cup { AudioMsg(22050, NoAlign, Align("snake", Some(<<0, 100>>), Some(<<100, 400>>),
                                          Some(<<"h", "i">>))) }
    \* 88641 bytes are 2010 ms of audio, computed as 2009
    \cup { AudioMsg(88641, Align("camel", Some(<<0, 2009>>), Some(<<2009, 1>>),
                                Some(<<"h", "i">>)), NoAlign) }
    \cup { AudioMsg(13230, Align("camel", Some(<<>>), Some(<<>>), Some(<<>>)),
                    Align("snake", Some(<<0, 50>>), Some(<<50, 250>>),
                          Some(<<"a", "b">>))) }

\* audio chunks one stream yields in the model
MaxRecvChunks == 2

\* no call made yet on a session: the call's name and text, whether it
\* raised, the session as the call found it, the calls made so far, the
\* send_text calls that got to build a message, and whether close() was called
NoSessCall ==
    [op |-> "none", text |-> <<>>, raised |-> FALSE, pre |-> NewSession,
     n |-> 0, built |-> 0, closed |-> FALSE]

\* a started session with its websocket open (start()), or stream_text after
\* its two sends, about to read the websocket
InitRecv ==
    /\ recv_path \in {"session", "streamer"}
    /\ recv_sess = [NewSession EXCEPT !.started = TRUE, !.http = TRUE, !.ws = "open"]
    /\ recv_status = "open"
    /\ recv_out = <<>>
    /\ recv_in = <<>>
    /\ sess_call = NoSessCall

RecvIdle ==
    /\ recv_path = "none"
    /\ recv_sess = NewSession
    /\ recv_status = "none"
    /\ recv_out = <<>>
    /\ recv_in = <<>>
    /\ sess_call = NoSessCall

\* the consumer takes the next item of receive_audio() / stream_text()
RecvStep ==
    \E msg \in RecvMessages :
        /\ recv_status = "open"
        /\ (msg.audio # 0 => recv_sess.chunk_index < MaxRecvChunks)
        /\ LET r == IF recv_path = "session" THEN ReceiveAudio(recv_sess, msg)
                    ELSE ReceiveMessage(recv_sess, msg)
           IN /\ recv_sess' = r.s
              /\ recv_out' = recv_out \o r.yielded
              /\ recv_status' = IF r.raised THEN "raised"
                                ELSE IF r.ended THEN "ended" ELSE "open"
              /\ recv_in' = IF r.yielded # <<>> /\ ~r.ended
                            THEN Append(recv_in, [local |-> ChunkAlignment(msg).times,
                                                  nbytes |-> msg.audio])
                            ELSE recv_in
        /\ UNCHANGED <<recv_path, sess_call>>
        /\ UNCHANGED notRecvVars

BufIdle ==
    /\ buffer = <<>>
    /\ buffer_threshold = 50
    /\ connected = FALSE
    /\ first_chunk_sent = FALSE
    /\ sent_messages = <<>>
    /\ n_fragments = 0
    /\ n_failures = 0
    /\ last_call = NoCall
    /\ script = "none"
    /\ script_pos = 0
    /\ mock = NewMock
    /\ agent = NoAgent

(***************************************************************************)
(* tts_streamer.py: the sending side of ElevenLabsStreamingSession         *)
(***************************************************************************)
\* a message the upstream websocket accepted; the end-of-input sentinel is
\* {"text": ""} with no other key
UpstreamMsg(text, trigger, settings) ==
    [text |-> text, try_trigger_generation |-> trigger, settings |-> settings]

Sentinel == UpstreamMsg(<<>>, "absent", FALSE)

\* start(): connect_ok is whether ws_connect succeeds
SessionStart(s, connect_ok) ==
    IF s.started THEN [s |-> s, raised |-> FALSE]
    ELSE IF connect_ok
         THEN [s |-> [s EXCEPT !.http = TRUE, !.ws = "open", !.started = TRUE],
               raised |-> FALSE]
         ELSE [s |-> [s EXCEPT !.http = TRUE], raised |-> TRUE]

SendText_AlwaysTrigger(s, text) ==
    IF ~s.started \/ s.ws = "none" THEN [s |-> s, raised |-> TRUE]
    ELSE IF s.finished THEN [s |-> s, raised |-> TRUE]
    ELSE LET first == ~s.first_text_sent
             message == UpstreamMsg(text, "true", first)
             s1 == [s EXCEPT !.first_text_sent = TRUE]
         IN IF s.ws = "open"
            THEN [s |-> [s1 EXCEPT !.out = Append(@, message)], raised |-> FALSE]
            ELSE [s |-> s1, raised |-> TRUE]

\* send_text(text); send_json raises on a websocket that is no longer open
SendText(s, text) ==
    IF ~s.started \/ s.ws = "none" THEN [s |-> s, raised |-> TRUE]
    ELSE IF s.finished THEN [s |-> s, raised |-> TRUE]
    ELSE LET first == ~s.first_text_sent
             message == UpstreamMsg(text, IF first THEN "true" ELSE "false", first)
             s1 == [s EXCEPT !.first_text_sent = TRUE]
         IN IF s.ws = "open"
            THEN [s |-> [s1 EXCEPT !.out = Append(@, message)], raised |-> FALSE]
            ELSE [s |-> s1, raised |-> TRUE]

SessionFinish_NoMark(s) ==
    IF ~s.started \/ s.ws = "none" THEN [s |-> s, raised |-> FALSE]
    ELSE IF s.finished THEN [s |-> s, raised |-> FALSE]
    ELSE IF s.ws = "open"
         THEN [s |-> [s EXCEPT !.out = Append(@, Sentinel)], raised |-> FALSE]
         ELSE [s |-> s, raised |-> TRUE]

\* finish()
SessionFinish(s) ==
    IF ~s.started \/ s.ws = "none" THEN [s |-> s, raised |-> FALSE]
    ELSE IF s.finished THEN [s |-> s, raised |-> FALSE]
    ELSE IF s.ws = "open"
         THEN [s |-> [s EXCEPT !.out = Append(@, Sentinel), !.finished = TRUE],
               raised |-> FALSE]
         ELSE [s |-> s, raised |-> TRUE]

\* close()
SessionClose(s) ==
    [s EXCEPT !.ws = IF s.ws = "none" THEN "none" ELSE "closed",
              !.http = FALSE, !.started = FALSE]

\* the text of the n-th append_tts message, and of the n-th call on a session
Letters == <<"a", "b", "c", "d", "e", "f">>
TextOf(n) == <<Letters[n]>>

(***************************************************************************)
(* One ElevenLabsStreamingSession and the calls its owner makes on it      *)
(***************************************************************************)
\* calls made on one session in the model
MaxSessCalls == 6

\* ElevenLabsStreamingSession(config)
InitSess ==
    /\ recv_path = "calls"
    /\ recv_sess = NewSession
    /\ recv_status = "none"
    /\ recv_out = <<>>
    /\ recv_in = <<>>
    /\ sess_call = NoSessCall

SessCalled(op, text, raised, built) ==
    [op |-> op, text |-> text, raised |-> raised, pre |-> recv_sess,
     n |-> sess_call.n + 1, built |-> sess_call.built + (IF built THEN 1 ELSE 0),
     closed |-> sess_call.closed \/ op = "close"]

\* await session.start(); a closed session is not started again
SessStart ==
    \E connect_ok \in BOOLEAN :
        /\ recv_path = "calls" /\ sess_call.n < MaxSessCalls
        /\ ~sess_call.closed
        /\ LET r == SessionStart(recv_sess, connect_ok)
           IN /\ recv_sess' = r.s
              /\ sess_call' = SessCalled("start", <<>>, r.raised, FALSE)
        /\ UNCHANGED <<recv_path, recv_status, recv_out, recv_in>>
        /\ UNCHANGED notRecvVars

\* await session.send_text(text)
SessSendText ==
    /\ recv_path = "calls" /\ sess_call.n < MaxSessCalls
    /\ LET text == TextOf(sess_call.n + 1)
           r == SendText(recv_sess, text)
       IN /\ recv_sess' = r.s
          /\ sess_call' = SessCalled("send_text", text, r.raised,
                                     recv_sess.started /\ recv_sess.ws # "none"
                                        /\ ~recv_sess.finished)
    /\ UNCHANGED <<recv_path, recv_status, recv_out, recv_in>>
    /\ UNCHANGED notRecvVars

\* await session.finish()
SessFinish ==
    /\ recv_path = "calls" /\ sess_call.n < MaxSessCalls
    /\ LET r == SessionFinish(recv_sess)
       IN /\ recv_sess' = r.s
          /\ sess_call' = SessCalled("finish", <<>>, r.raised, FALSE)
    /\ UNCHANGED <<recv_path, recv_status, recv_out, recv_in>>
    /\ UNCHANGED notRecvVars

\* await session.close()
SessClose ==
    /\ recv_path = "calls" /\ sess_call.n < MaxSessCalls
    /\ sess_call.op # "close"
    /\ recv_sess' = SessionClose(recv_sess)
    /\ sess_call' = SessCalled("close", <<>>, FALSE, FALSE)
    /\ UNCHANGED <<recv_path, recv_status, recv_out, recv_in>>
    /\ UNCHANGED notRecvVars

\* the upstream connection is lost
SessDrop ==
    /\ recv_path = "calls"
    /\ recv_sess.ws = "open"
    /\ recv_sess' = [recv_sess EXCEPT !.ws = "closed"]
    /\ UNCHANGED <<recv_path, recv_status, recv_out, recv_in, sess_call>>
    /\ UNCHANGED notRecvVars

(***************************************************************************)
(* ws_server.py: TTSBroadcaster                                            *)
(***************************************************************************)
Producers == {"p1", "p2"}
Consumers == {"c1", "c2"}

\* the text of a start_tts message
ShotText == <<"s">>

\* producer calls of a run, of a run over two utterances and of a run with a
\* single-shot request; single-shot requests; audio chunks of one upstream
\* stream
MaxCalls == 3
MaxLongCalls == 4
MaxShotCalls == 2
MaxShots == 1
MaxChunks == 1

\* of a run that follows the set iterator of a broadcast over a set that had
\* elements added meanwhile: producer calls, and such additions followed
MaxFanCalls == 2
MaxGrown == 1

\* steady: the consumers that connect before the first producer call, stay
\* connected and have no send fail or outlast the finish timeout; attach:
\* the producers' calls come over connections of agent_endpoint, "p2"
\* connecting when "p1" has disconnected
Limits(calls, shots, consumers, grown) ==
    [calls |-> calls, shots |-> shots, consumers |-> consumers,
     grown |-> grown, steady |-> {}, attach |-> FALSE]

\* the events sent to consumers
Event(type) ==
    [type |-> type, audio |-> 0, char_times |-> <<>>, char_durations |-> <<>>,
     chars |-> <<>>, chunk_index |-> 0, text |-> <<>>, total_chars |-> 0,
     total_duration_ms |-> 0, message |-> ""]

ChunkEvent(chunk, index) ==
    [Event("chunk") EXCEPT !.audio = chunk.audio_bytes,
                           !.char_times = chunk.char_start_times_ms,
                           !.char_durations = chunk.char_durations_ms,
                           !.chars = chunk.chars,
                           !.chunk_index = index]

CompleteEvent(text, chars, total_ms) ==
    [Event("complete") EXCEPT !.text = text, !.total_chars = Len(chars),
                              !.total_duration_ms = total_ms]

ErrorEvent(message) == [Event("error") EXCEPT !.message = message]

NoEvent == Event("none")

\* what the provider sends on the coordinator's and the single-shot streams
ChunkHi ==
    AudioMsg(22050, Align("camel", Some(<<0, 100>>), Some(<<100, 400>>),
                          Some(<<"h", "i">>)), NoAlign)
ChunkH == AudioMsg(13230, Align("snake", NoList, NoList, Some(<<"h">>)), NoAlign)
FinalMarker == [TextMsg EXCEPT !.isFinal = TRUE]
ErrorPayload == [TextMsg EXCEPT !.has_error = TRUE]
ClosedMsg == [TextMsg EXCEPT !.type = "CLOSED"]

\* the provider answers text with audio or an error, and the sentinel with
\* the final marker; a closed websocket ends the iteration
UpstreamMessages(s) ==
    IF s.ws # "open" THEN {ClosedMsg}
    ELSE (IF s.out # <<>> /\ s.chunk_index < MaxChunks
          THEN {IF s.chunk_index = 0 THEN ChunkHi ELSE ChunkH} ELSE {})
         \cup (IF s.out # <<>> THEN {ErrorPayload} ELSE {})
         \cup (IF s.finished THEN {FinalMarker} ELSE {})

\* added: an element was added to the set since the loop began; again: the
\* consumers the iterator gave before the last such addition and has not
\* given since
NoBroadcast ==
    [owner |-> "none", msg |-> NoEvent, start |-> {}, visited |-> {},
     added |-> FALSE, again |-> {}, disconnected |-> {}, cur |-> "none"]

\* behind: while the call is queued, the call that held the lock when it
\* arrived
NoCallYet == [n |-> 0, op |-> "none", text |-> <<>>, result |-> "none",
              behind |-> "none"]

NoShot == [st |-> "idle", s |-> NewSession, text |-> <<>>, chars |-> <<>>,
           times |-> <<>>, durations |-> <<>>, total_ms |-> 0, chunk_count |-> 0]

\* the utterance in progress as its callers see it: its number, the texts of
\* its appends, the sessions opened for it, what the upstream websocket
\* accepted, the completion broadcasts that returned and how its finish ended;
\* and of the session in use: whether its connection failed or the provider
\* reported an error, the characters the forwarding task received from it
\* (and from the session before), whether its finish timed out, and the
\* completion event built; provider_error: the forwarding task got an error
\* payload from it
NoUtterance ==
    [n |-> 0, appended |-> <<>>, sessions |-> 0, out |-> <<>>, completions |-> 0,
     finish |-> "none", upfail |-> FALSE, provider_error |-> FALSE,
     recv_chars |-> 0, prev_chars |-> 0, timed_out |-> FALSE,
     complete |-> NoEvent]

\* TTSBroadcaster.__init__, no connection open
NewBroadcaster ==
    /\ flutter_clients = {}
    /\ el_session = <<>>
    /\ audio_task = "none"
    /\ is_streaming = FALSE
    /\ lock = "free"
    /\ waiters = <<>>
    /\ full_text = <<>>
    /\ all_chars = <<>>
    /\ all_times = <<>>
    /\ all_durations = <<>>
    /\ total_audio_ms = 0
    /\ chunk_count = 0
    /\ pc = [p \in Producers |-> "idle"]
    /\ call = [p \in Producers |-> NoCallYet]
    /\ bc = NoBroadcast
    /\ conn = [c \in Consumers |-> "closed"]
    /\ inbox = [c \in Consumers |-> <<>>]
    /\ shot = [c \in Consumers |-> NoShot]
    /\ utt = NoUtterance
    /\ n_calls = 0
    /\ n_shots = 0
    /\ n_grown = 0
    /\ agent_ws = "none"
    /\ agent_conn = [p \in Producers |-> "closed"]

CoordIdle == NewBroadcaster /\ limits = Limits(0, 0, {}, 0)

\* the state as one record, for the handlers below, which are written as
\* functions from the state at one suspension point to the set of states the
\* task can be in at its next one
World ==
    [flutter_clients |-> flutter_clients, el_session |-> el_session,
     audio_task |-> audio_task, is_streaming |-> is_streaming, lock |-> lock,
     waiters |-> waiters, full_text |-> full_text, all_chars |-> all_chars,
     all_times |-> all_times, all_durations |-> all_durations,
     total_audio_ms |-> total_audio_ms, chunk_count |-> chunk_count,
     pc |-> pc, call |-> call, bc |-> bc, conn |-> conn,
     inbox |-> inbox, shot |-> shot, utt |-> utt, n_calls |-> n_calls,
     n_shots |-> n_shots, n_grown |-> n_grown, agent_ws |-> agent_ws,
     agent_conn |-> agent_conn]

Becomes(w) ==
    /\ flutter_clients' = w.flutter_clients
    /\ el_session' = w.el_session
    /\ audio_task' = w.audio_task
    /\ is_streaming' = w.is_streaming
    /\ lock' = w.lock
    /\ waiters' = w.waiters
    /\ full_text' = w.full_text
    /\ all_chars' = w.all_chars
    /\ all_times' = w.all_times
    /\ all_durations' = w.all_durations
    /\ total_audio_ms' = w.total_audio_ms
    /\ chunk_count' = w.chunk_count
    /\ pc' = w.pc
    /\ call' = w.call
    /\ bc' = w.bc
    /\ conn' = w.conn
    /\ inbox' = w.inbox
    /\ shot' = w.shot
    /\ utt' = w.utt
    /\ n_calls' = w.n_calls
    /\ n_shots' = w.n_shots
    /\ n_grown' = w.n_grown
    /\ agent_ws' = w.agent_ws
    /\ agent_conn' = w.agent_conn
    /\ UNCHANGED limits
    /\ UNCHANGED notCoordVars

\* client.send_json(event): accepted by an open websocket, raises otherwise
Deliver(w, c, event) == [w EXCEPT !.inbox[c] = Append(@, event)]

\* how a broadcast_to_clients call that went through its loop ended
BroadcastEnded(w, raised, removed) ==
    [raised |-> raised, start |-> w.bc.start, failed |-> w.bc.disconnected,
     delivered |-> w.bc.visited \ w.bc.disconnected, removed |-> removed,
     missed |-> { c \in w.bc.start \ w.bc.visited :
                    c \in w.flutter_clients /\ w.conn[c] = "open" }]

NotEnded ==
    [raised |-> FALSE, start |-> {}, failed |-> {}, delivered |-> {},
     removed |-> {}, missed |-> {}]

\* broadcast_to_clients(message) up to its first send: it returns at once
\* when there is no consumer, else it takes the first element the set
\* iterator gives and is suspended in the send to it
BroadcastStart(w, owner, message) ==
    IF w.flutter_clients = {}
    THEN { [w |-> w, returned |-> TRUE] }
    ELSE { [w |-> [w EXCEPT !.bc = [owner |-> owner, msg |-> message,
                                    start |-> w.flutter_clients,
                                    visited |-> {c}, added |-> FALSE,
                                    again |-> {},
                                    disconnected |-> {}, cur |-> c]],
            returned |-> FALSE] : c \in w.flutter_clients }

\* the for loop over the live set, after a send: the iterator raises
\* RuntimeError when the set's size is not what it was when the loop began.
\* Over a set of the same size it gives an element not yet given. When an
\* element was added meanwhile (and another discarded, the size being the
\* same) the new element may lie in a slot the iterator has passed, and the
\* hash table may have been rebuilt (add() rebuilds it when it is three
\* fifths full, counting the slots left by discarded elements, those of
\* connections long gone included) while the iterator goes on from its slot
\* index: it may then give a second time an element it gave before the
\* addition, pass over one not yet given, or be exhausted early
BroadcastLoop(w) ==
    LET b == w.bc
        rest == w.flutter_clients \ b.visited
        repeat == w.flutter_clients \cap b.again
    IN IF Cardinality(w.flutter_clients) # Cardinality(b.start)
       THEN { [w |-> [w EXCEPT !.bc = NoBroadcast], end |-> "raised",
               done |-> BroadcastEnded(w, TRUE, {})] }
       ELSE { [w |-> [w EXCEPT !.bc.cur = c, !.bc.visited = @ \cup {c}],
               end |-> "sending", done |-> NotEnded] : c \in rest }
            \cup { [w |-> [w EXCEPT !.bc.cur = c, !.bc.again = @ \ {c}],
                    end |-> "sending", done |-> NotEnded] : c \in repeat }
            \cup (IF rest = {} \/ b.added
                  THEN { [w |-> [w EXCEPT !.flutter_clients = @ \ b.disconnected,
                                          !.bc = NoBroadcast],
                          end |-> "returned",
                          done |-> BroadcastEnded(w, FALSE,
                                       w.flutter_clients \cap b.disconnected)] }
                  ELSE {})

\* an element was added to the set: a broadcast suspended in a send has its
\* iterator over a changed table
SetGrown(w) ==
    IF w.bc.owner = "none" \/ w.n_grown >= limits.grown THEN w
    ELSE [w EXCEPT !.bc.added = TRUE, !.bc.again = w.bc.visited,
                   !.n_grown = @ + 1]

\* the send to bc.cur completes or raises, and the loop goes on
BroadcastAdvance(w) ==
    LET c == w.bc.cur
    IN BroadcastLoop(IF w.conn[c] = "open"
                     THEN Deliver(w, c, w.bc.msg)
                     ELSE [w EXCEPT !.bc.disconnected = @ \cup {c}])

Return_KeepsLock(w, p, result) ==
    [w EXCEPT !.pc[p] = "idle", !.call[p].result = result]

\* the handler of producer p returns or raises, leaving the "async with"
Return(w, p, result) ==
    [w EXCEPT !.pc[p] = "idle", !.call[p].result = result, !.lock = "free"]

\* the reset at the head of _start_session
ResetState_KeepChars(w) ==
    [w EXCEPT !.full_text = <<>>, !.all_times = <<>>,
              !.all_durations = <<>>, !.total_audio_ms = 0, !.chunk_count = 0]

ResetState(w) ==
    [w EXCEPT !.full_text = <<>>, !.all_chars = <<>>, !.all_times = <<>>,
              !.all_durations = <<>>, !.total_audio_ms = 0, !.chunk_count = 0]

\* _cleanup on a task that has ended: awaiting it re-raises what it raised,
\* except a cancellation; then the session is closed and dropped
Cleanup(w) ==
    IF w.audio_task = "failed"
    THEN [w |-> w, raised |-> TRUE]
    ELSE [w |-> [w EXCEPT !.audio_task = "none", !.el_session = <<>>,
                          !.is_streaming = FALSE],
          raised |-> FALSE]

\* handle_finish after the completion broadcast has returned
FinishCleanup(w, p) ==
    LET w1 == [w EXCEPT !.utt.completions = @ + 1]
        r == Cleanup(w1)
    IN IF r.raised
       THEN Return([r.w EXCEPT !.utt.finish = "raised"], p, "raised")
       ELSE Return([r.w EXCEPT !.utt.finish = "ok"], p, "ok")

\* handle_finish from the completion broadcast on
FinishBroadcast(w, p) ==
    LET message == CompleteEvent(w.full_text, w.all_chars, w.total_audio_ms)
        w1 == [w EXCEPT !.utt.complete = message]
    IN { IF b.returned THEN FinishCleanup(b.w, p)
         ELSE [b.w EXCEPT !.pc[p] = "f_bcast"] : b \in BroadcastStart(w1, p, message) }

\* handle_finish at wait_for(self._audio_task): a task that has ended gives
\* its result or its exception at once
FinishAwaitTask(w, p) ==
    CASE w.audio_task \in {"none", "done"} -> FinishBroadcast(w, p)
      [] w.audio_task \in {"failed", "cancelled"} ->
            { Return([w EXCEPT !.utt.finish = "raised"], p, "raised") }
      [] OTHER -> { [w EXCEPT !.pc[p] = "f_wait"] }

FinishEnter_NoGuard(w, p) ==
    LET w0 == [w EXCEPT !.lock = p]
    IN FinishBroadcast(w0, p)

\* handle_finish from taking the lock to its first suspension
FinishEnter(w, p) ==
    LET w0 == [w EXCEPT !.lock = p]
    IN IF ~w.is_streaming \/ w.el_session = <<>>
       THEN { Return(w0, p, "noop") }
       ELSE LET s == w.el_session[1]
            IN IF ~s.started \/ s.ws = "none" \/ s.finished
               THEN FinishAwaitTask(w0, p)
               ELSE { [w0 EXCEPT !.pc[p] = "f_sentinel"] }

\* the sentinel's send_json completes or raises
FinishSentinel(w, p) ==
    LET r == SessionFinish(w.el_session[1])
    IN IF r.raised
       THEN { Return([w EXCEPT !.utt.finish = "raised"], p, "raised") }
       ELSE FinishAwaitTask([w EXCEPT !.el_session = <<r.s>>,
                                      !.utt.out = Append(@, Sentinel)], p)

\* wait_for times out: the task is cancelled where it is suspended and
\* awaited; inside its "except Exception" handler the cancellation is not
\* caught
FinishTimedOut(w, p) ==
    LET w1 == [w EXCEPT !.audio_task = IF @ = "errbcast" THEN "cancelled" ELSE "done",
                        !.bc = NoBroadcast,
                        !.utt.timed_out = TRUE]
    IN FinishBroadcast(w1, p)

\* the utterance an append belongs to: the one in progress, or a new one
\* when the one before has had its finish; opens: the append opens a session
Appended(u, text, opens) ==
    LET isnew == u.finish # "none" \/ u.appended = <<>>
        v == IF isnew
             THEN [u EXCEPT !.n = @ + 1, !.appended = <<>>, !.sessions = 0,
                            !.out = <<>>, !.completions = 0, !.finish = "none",
                            !.upfail = IF opens THEN FALSE ELSE @]
             ELSE u
    IN IF opens
       THEN [v EXCEPT !.appended = Append(@, text), !.sessions = @ + 1,
                      !.recv_chars = 0, !.prev_chars = u.recv_chars,
                      !.timed_out = FALSE, !.complete = NoEvent,
                      !.provider_error = FALSE]
       ELSE [v EXCEPT !.appended = Append(@, text)]

\* handle_append_text from taking the lock to its first suspension
AppendEnter(w, p) ==
    LET w0 == [w EXCEPT !.lock = p]
    IN IF ~w.is_streaming
       THEN [ResetState(w0) EXCEPT
                !.el_session = <<NewSession>>,
                !.pc[p] = "a_start",
                !.utt = Appended(w.utt, w.call[p].text, TRUE)]
       ELSE IF w.el_session = <<>>
            THEN Return([w0 EXCEPT !.utt = Appended(w.utt, w.call[p].text, FALSE)],
                        p, "ok")
            ELSE [w0 EXCEPT !.pc[p] = "a_send",
                            !.utt = Appended(w.utt, w.call[p].text, FALSE)]

AppendStarted_FlagFirst(w, p, connect_ok) ==
    LET r == SessionStart(w.el_session[1], connect_ok)
    IN IF r.raised
       THEN Return([w EXCEPT !.el_session = <<r.s>>, !.utt.upfail = TRUE,
                             !.is_streaming = TRUE], p, "raised")
       ELSE [w EXCEPT !.el_session = <<r.s>>, !.audio_task = "recv",
                      !.is_streaming = TRUE, !.pc[p] = "a_send"]

\* start() returns or raises; then the task is created and send_text begins
AppendStarted(w, p, connect_ok) ==
    LET r == SessionStart(w.el_session[1], connect_ok)
    IN IF r.raised
       THEN Return([w EXCEPT !.el_session = <<r.s>>, !.utt.upfail = TRUE], p, "raised")
       ELSE [w EXCEPT !.el_session = <<r.s>>, !.audio_task = "recv",
                      !.is_streaming = TRUE, !.pc[p] = "a_send"]

\* send_text returns or raises
AppendSent(w, p) ==
    LET r == SendText(w.el_session[1], w.call[p].text)
    IN IF r.raised
       THEN Return([w EXCEPT !.el_session = <<r.s>>], p, "raised")
       ELSE Return([w EXCEPT !.el_session = <<r.s>>,
                             !.full_text = @ \o w.call[p].text,
                             !.utt.out = Append(@, r.s.out[Len(r.s.out)])], p, "ok")

\* _receive_and_broadcast_audio when the error broadcast has ended
TaskErrorBroadcast(w, message) ==
    { IF b.returned THEN [b.w EXCEPT !.audio_task = "done"]
      ELSE [b.w EXCEPT !.audio_task = "errbcast"]
        : b \in BroadcastStart(w, "task_err", ErrorEvent(message)) }

\* _receive_and_broadcast_audio takes the next item of receive_audio()
TaskReceive(w, msg) ==
    LET r == ReceiveAudio(w.el_session[1], msg)
        w1 == [w EXCEPT !.el_session = <<r.s>>]
    IN IF r.raised
       THEN TaskErrorBroadcast([w1 EXCEPT !.utt.upfail = TRUE,
                                          !.utt.provider_error = TRUE],
                               "ElevenLabs API error")
       ELSE IF r.ended
       THEN { [w1 EXCEPT !.audio_task = "done"] }
       ELSE IF r.yielded = <<>>
       THEN { w1 }
       ELSE LET chunk == r.yielded[1]
                w2 == [w1 EXCEPT !.all_chars = @ \o chunk.chars,
                                 !.all_times = @ \o chunk.char_start_times_ms,
                                 !.all_durations = @ \o chunk.char_durations_ms,
                                 !.total_audio_ms = @ + AudioDurationMs(chunk.audio_bytes),
                                 !.utt.recv_chars = @ + Len(chunk.chars)]
            IN { IF b.returned
                 THEN [b.w EXCEPT !.chunk_count = @ + 1]
                 ELSE [b.w EXCEPT !.audio_task = "bcast"]
                   : b \in BroadcastStart(w2, "task", ChunkEvent(chunk, w2.chunk_count)) }

\* the caller of broadcast_to_clients goes on after the call
Resume(w, owner, end) ==
    CASE end = "sending" -> { w }
      [] owner = "task" /\ end = "returned" ->
            { [w EXCEPT !.chunk_count = @ + 1, !.audio_task = "recv"] }
      [] owner = "task" /\ end = "raised" ->
            TaskErrorBroadcast(w, "Set changed size during iteration")
      [] owner = "task_err" /\ end = "returned" -> { [w EXCEPT !.audio_task = "done"] }
      [] owner = "task_err" /\ end = "raised" -> { [w EXCEPT !.audio_task = "failed"] }
      [] owner \in Producers /\ end = "returned" -> { FinishCleanup(w, owner) }
      [] owner \in Producers /\ end = "raised" ->
            { Return([w EXCEPT !.utt.finish = "raised"], owner, "raised") }

(***************************************************************************)
(* The steps of the coordinator and of the tasks around it                 *)
(***************************************************************************)
\* a call that finds the lock free and nobody queued takes it without
\* suspending; any other call queues
Enter(w, p) ==
    IF w.call[p].op = "append" THEN { AppendEnter(w, p) } ELSE FinishEnter(w, p)

Called_NoLock(w, p, op, text) ==
    Enter([w EXCEPT !.call[p] = [n |-> w.n_calls + 1, op |-> op, text |-> text,
                                 result |-> "pending", behind |-> "none"],
                    !.n_calls = @ + 1], p)

Called(w, p, op, text) ==
    LET w1 == [w EXCEPT !.call[p] = [n |-> w.n_calls + 1, op |-> op, text |-> text,
                                     result |-> "pending", behind |-> "none"],
                        !.n_calls = @ + 1]
    IN IF w.lock = "free" /\ w.waiters = <<>>
       THEN Enter(w1, p)
       ELSE { [w1 EXCEPT !.waiters = Append(@, p),
                         !.call[p].behind = IF w.lock = "free" THEN "none"
                                            ELSE w.call[w.lock].op,
                         !.pc[p] = IF op = "append" THEN "a_lock" ELSE "f_lock"] }

\* the producer connections are interchangeable: a message arrives on "p1"
\* when its handler is idle, on "p2" while "p1" is in a call
MayCall(p) ==
    /\ pc[p] = "idle"
    /\ n_calls < limits.calls
    /\ IF limits.attach
       THEN /\ agent_conn[p] # "closed"
            /\ p = "p2" => agent_conn["p1"] = "closed"
       ELSE p = "p2" => pc["p1"] # "idle"

\* the agent endpoint receives append_tts with a non-empty text
AppendCall ==
    \E p \in Producers :
        /\ MayCall(p)
        /\ \E w \in Called(World, p, "append", TextOf(n_calls + 1)) : Becomes(w)

\* the agent endpoint receives finish_tts
FinishCall ==
    \E p \in Producers :
        /\ MayCall(p)
        /\ \E w \in Called(World, p, "finish", <<>>) : Becomes(w)

\* the first queued call is given the released lock
LockGranted ==
    \E p \in Producers :
        /\ lock = "free"
        /\ waiters # <<>> /\ Head(waiters) = p
        /\ \E w \in Enter([World EXCEPT !.waiters = Tail(@),
                                        !.call[p].behind = "none"], p) : Becomes(w)

AppendStart ==
    \E p \in Producers, connect_ok \in BOOLEAN :
        /\ pc[p] = "a_start"
        /\ Becomes(AppendStarted(World, p, connect_ok))

AppendSend ==
    \E p \in Producers :
        /\ pc[p] = "a_send"
        /\ Becomes(AppendSent(World, p))

FinishSentinelSent ==
    \E p \in Producers :
        /\ pc[p] = "f_sentinel"
        /\ \E w \in FinishSentinel(World, p) : Becomes(w)

\* the awaited task has ended
FinishTaskEnded ==
    \E p \in Producers :
        /\ pc[p] = "f_wait"
        /\ audio_task \in {"done", "failed", "cancelled"}
        /\ \E w \in FinishAwaitTask(World, p) : Becomes(w)

\* the awaited task has not ended within the timeout
FinishTimeout ==
    \E p \in Producers :
        /\ pc[p] = "f_wait"
        /\ audio_task \in {"recv", "bcast", "errbcast"}
        /\ bc.cur \notin limits.steady
        /\ \E w \in FinishTimedOut(World, p) : Becomes(w)

\* the forwarding task reads the upstream websocket
TaskStep ==
    /\ audio_task = "recv"
    /\ \E msg \in UpstreamMessages(el_session[1]) :
          \E w \in TaskReceive(World, msg) : Becomes(w)

\* the send a broadcast is suspended in ends
BroadcastStep ==
    /\ bc.owner # "none"
    /\ \E a \in BroadcastAdvance(World) :
          \E w \in Resume(a.w, bc.owner, a.end) : Becomes(w)

\* the upstream connection is lost or closed by the provider
UpstreamDrop ==
    /\ el_session # <<>>
    /\ el_session[1].ws = "open"
    /\ Becomes([World EXCEPT !.el_session[1].ws = "closed", !.utt.upfail = TRUE])

\* flutter_client_endpoint: accept and add_flutter_client
ConsumerConnect ==
    \E c \in Consumers :
        /\ c \in limits.consumers
        /\ c \in limits.steady => n_calls = 0
        /\ conn[c] = "closed"
        /\ Becomes(SetGrown([World EXCEPT !.conn[c] = "open",
                                          !.flutter_clients = @ \cup {c}]))

\* a consumer's connection breaks; its endpoint has not seen it yet
ConsumerBreak ==
    \E c \in Consumers :
        /\ conn[c] = "open"
        /\ c \notin limits.steady
        /\ Becomes([World EXCEPT !.conn[c] = "broken"])

\* flutter_client_endpoint: receive_json raises, remove_flutter_client
ConsumerClose ==
    \E c \in Consumers :
        /\ conn[c] # "closed"
        /\ c \notin limits.steady
        /\ shot[c].st = "idle"
        /\ Becomes([World EXCEPT !.conn[c] = "closed", !.inbox[c] = <<>>,
                                 !.flutter_clients = @ \ {c}])

(***************************************************************************)
(* ws_server.py: the producer endpoints' registration, and the status      *)
(* query                                                                   *)
(***************************************************************************)
\* agent_endpoint: accept and set_agent
AgentConnect ==
    \E p \in Producers :
        /\ agent_conn[p] = "closed"
        /\ Becomes([World EXCEPT !.agent_conn[p] = "agent", !.agent_ws = p])

\* legacy_endpoint: accept, is_agent = False, add_flutter_client
LegacyConnect ==
    \E p \in Producers :
        /\ agent_conn[p] = "closed"
        /\ Becomes(SetGrown([World EXCEPT !.agent_conn[p] = "legacy",
                                          !.flutter_clients = @ \cup {p}]))

\* legacy_endpoint: the first append_tts message of a connection (one without
\* text, so that no handler is called): remove_flutter_client, set_agent
LegacyPromote ==
    \E p \in Producers :
        /\ agent_conn[p] = "legacy"
        /\ Becomes([World EXCEPT !.agent_conn[p] = "legacy_agent",
                                 !.flutter_clients = @ \ {p},
                                 !.agent_ws = p])

ProducerClose_Cleanup ==
    \E p \in Producers :
        /\ agent_conn[p] # "closed"
        /\ pc[p] = "idle"
        /\ Becomes([World EXCEPT !.agent_conn[p] = "closed", !.agent_ws = "none",
                                 !.is_streaming = FALSE, !.el_session = <<>>,
                                 !.audio_task = "none", !.bc = NoBroadcast])

\* the finally clause of agent_endpoint and of legacy_endpoint, when the
\* connection is closed and no handler call of it is in progress
ProducerClose ==
    \E p \in Producers :
        /\ agent_conn[p] # "closed"
        /\ pc[p] = "idle"
        /\ Becomes(IF agent_conn[p] = "legacy"
                   THEN [World EXCEPT !.agent_conn[p] = "closed",
                                      !.flutter_clients = @ \ {p}]
                   ELSE [World EXCEPT !.agent_conn[p] = "closed",
                                      !.agent_ws = "none"])

\* health()
Health ==
    [flutter_clients |-> Cardinality(flutter_clients),
     agent_connected |-> agent_ws # "none",
     is_streaming |-> is_streaming]

(***************************************************************************)
(* ws_server.py: handle_single_shot, run by the requesting consumer's      *)
(* endpoint over locals and its own websocket                              *)
(***************************************************************************)
ShotSend_Broadcast(w, c, event) ==
    IF w.conn[c] = "open"
    THEN [w |-> [w EXCEPT !.inbox = [d \in Consumers |->
                                        IF d = c \/ (d \in w.flutter_clients
                                                     /\ w.conn[d] = "open")
                                        THEN Append(w.inbox[d], event)
                                        ELSE w.inbox[d]]],
          raised |-> FALSE]
    ELSE [w |-> w, raised |-> TRUE]

\* ws.send_json(event)
ShotSend(w, c, event) ==
    IF w.conn[c] = "open"
    THEN [w |-> Deliver(w, c, event), raised |-> FALSE]
    ELSE [w |-> w, raised |-> TRUE]

\* the "except Exception" handler: the error event is sent, and the call ends
\* whether or not that send raises
ShotFail(w, c, message) ==
    [ShotSend(w, c, ErrorEvent(message)).w EXCEPT !.shot[c] = NoShot]

\* stream_text up to its receive loop: connect, the text with the settings,
\* the sentinel
ShotBegin(w, c, text, connect_ok) ==
    LET w1 == [w EXCEPT !.n_shots = @ + 1]
    IN IF connect_ok
       THEN [w1 EXCEPT !.shot[c] =
                [NoShot EXCEPT !.st = "stream", !.text = text,
                               !.s = [NewSession EXCEPT
                                         !.started = TRUE, !.http = TRUE,
                                         !.ws = "open", !.first_text_sent = TRUE,
                                         !.finished = TRUE,
                                         !.out = <<UpstreamMsg(text, "true", TRUE),
                                                   Sentinel>>]]]
       ELSE ShotFail(w1, c, "connection error")

\* one item of stream_text() and what the loop body does with it
ShotReceive(w, c, msg) ==
    LET sh == w.shot[c]
        r == ReceiveMessage(sh.s, msg)
    IN IF r.raised THEN ShotFail(w, c, "ElevenLabs API error")
       ELSE IF r.ended
       THEN LET d == ShotSend(w, c, CompleteEvent(sh.text, sh.chars, sh.total_ms))
            IN IF d.raised THEN ShotFail(w, c, "send failed")
               ELSE [d.w EXCEPT !.shot[c] = NoShot]
       ELSE IF r.yielded = <<>> THEN w
       ELSE LET chunk == r.yielded[1]
                d == ShotSend(w, c, ChunkEvent(chunk, sh.chunk_count))
            IN IF d.raised THEN ShotFail(w, c, "send failed")
               ELSE [d.w EXCEPT !.shot[c] =
                        [sh EXCEPT !.s = r.s,
                                   !.chars = @ \o chunk.chars,
                                   !.times = @ \o chunk.char_start_times_ms,
                                   !.durations = @ \o chunk.char_durations_ms,
                                   !.total_ms = @ + AudioDurationMs(chunk.audio_bytes),
                                   !.chunk_count = @ + 1]]

\* flutter_client_endpoint receives start_tts with a non-empty text
ShotRequest ==
    \E c \in Consumers, connect_ok \in BOOLEAN :
        /\ conn[c] # "closed"
        /\ shot[c].st = "idle"
        /\ n_shots < limits.shots
        /\ Becomes(ShotBegin(World, c, ShotText, connect_ok))

ShotStep ==
    \E c \in Consumers :
        /\ shot[c].st = "stream"
        /\ \E msg \in UpstreamMessages(shot[c].s) :
              Becomes(ShotReceive(World, c, msg))

\* the free run of the bufferer
InitBuf == InitBufFree /\ RecvIdle /\ CoordIdle
NextBuf == BufAppend \/ BufFinish
SpecBuf == InitBuf /\ [][NextBuf]_vars

\* the agent streaming responses to its client
InitAgent == InitBufAgent /\ RecvIdle /\ CoordIdle
NextAgent == AgentRespond \/ AgentToken \/ AgentStreamFails \/ AgentStreamEnds
SpecAgent == InitAgent /\ [][NextAgent]_vars

\* the real client and the test double side by side
InitBoth == InitBufBoth /\ RecvIdle /\ CoordIdle
NextBoth == BothAppend \/ BothFinish
SpecBoth == InitBoth /\ [][NextBoth]_vars

\* the runs of test_buffering.py
InitScript == InitBufScript /\ RecvIdle /\ CoordIdle
NextScript == ScriptAppend \/ ScriptFinish
SpecScript == InitScript /\ [][NextScript]_vars

\* one upstream stream read to its end
InitRecvRun == InitRecv /\ BufIdle /\ CoordIdle
NextRecv == RecvStep
SpecRecv == InitRecvRun /\ [][NextRecv]_vars

\* one session under any sequence of calls
InitSession == InitSess /\ BufIdle /\ CoordIdle
NextSession == SessStart \/ SessSendText \/ SessFinish \/ SessClose \/ SessDrop
SpecSession == InitSession /\ [][NextSession]_vars

\* the coordinator with its producers, consumers and upstream provider
Init == NewBroadcaster /\ limits = Limits(MaxCalls, 0, Consumers, 0) /\ BufIdle /\ RecvIdle
Next ==
    \/ AppendCall \/ FinishCall \/ LockGranted
    \/ AppendStart \/ AppendSend
    \/ FinishSentinelSent \/ FinishTaskEnded \/ FinishTimeout
    \/ TaskStep \/ BroadcastStep \/ UpstreamDrop
    \/ ConsumerConnect \/ ConsumerBreak \/ ConsumerClose
Spec == Init /\ [][Next]_vars

\* the same over more calls, with one consumer
InitLong ==
    NewBroadcaster /\ limits = Limits(MaxLongCalls, 0, {"c1"}, 0) /\ BufIdle /\ RecvIdle
SpecLong == InitLong /\ [][Next]_vars

\* the same over fewer calls, the set iterator of a broadcast followed over
\* a set that had an element added during a send
InitFan ==
    NewBroadcaster /\ limits = Limits(MaxFanCalls, 0, Consumers, MaxGrown)
        /\ BufIdle /\ RecvIdle
SpecFan == InitFan /\ [][Next]_vars

\* the same with a consumer that is connected before the first call and
\* stays, beside one that comes and goes
InitSteady ==
    NewBroadcaster
        /\ limits = [Limits(MaxCalls, 0, Consumers, 0) EXCEPT !.steady = {"c1"}]
        /\ BufIdle /\ RecvIdle
SpecSteady == InitSteady /\ [][Next]_vars

\* the calls made over producer connections that come and go, with one
\* consumer
InitProducer ==
    NewBroadcaster
        /\ limits = [Limits(MaxCalls, 0, {"c1"}, 0) EXCEPT !.attach = TRUE]
        /\ BufIdle /\ RecvIdle
NextProducer ==
    \/ AgentConnect \/ ProducerClose
    \/ AppendCall \/ FinishCall \/ LockGranted
    \/ AppendStart \/ AppendSend
    \/ FinishSentinelSent \/ FinishTaskEnded \/ FinishTimeout
    \/ TaskStep \/ BroadcastStep \/ UpstreamDrop
    \/ ConsumerConnect \/ ConsumerBreak \/ ConsumerClose
SpecProducer == InitProducer /\ [][NextProducer]_vars

\* the connections of producers and consumers, no utterance being made
InitStatus ==
    NewBroadcaster /\ limits = Limits(0, 0, Consumers, 0) /\ BufIdle /\ RecvIdle
NextStatus ==
    \/ AgentConnect \/ LegacyConnect \/ LegacyPromote \/ ProducerClose
    \/ ConsumerConnect \/ ConsumerBreak \/ ConsumerClose
SpecStatus == InitStatus /\ [][NextStatus]_vars

\* single-shot requests beside an utterance whose upstream stream runs to
\* its final marker
InitShot ==
    NewBroadcaster /\ limits = Limits(MaxShotCalls, MaxShots, Consumers, 0)
        /\ BufIdle /\ RecvIdle
NextShot ==
    \/ AppendCall \/ FinishCall \/ LockGranted
    \/ AppendStart \/ AppendSend
    \/ FinishSentinelSent \/ FinishTaskEnded
    \/ TaskStep \/ BroadcastStep
    \/ ConsumerConnect \/ ConsumerBreak \/ ConsumerClose
    \/ ShotRequest \/ ShotStep
SpecShot == InitShot /\ [][NextShot]_vars

(***************************************************************************)
(* Claims about the bufferer                                               *)
(***************************************************************************)
ExactlyOneTrailingSpace(t) ==
    /\ t # <<>>
    /\ t[Len(t)] = Space
    /\ (Len(t) > 1 => t[Len(t) - 1] # Space)

NoPunctNoWhitespace(t) ==
    \A i \in 1..Len(t) : t[i] \notin (SentenceEnd \cup Commas \cup Whitespace)

\* C8: with threshold 50, feeding "1", ",", " ", "2", ..., "15" one token at a
\* time and then calling finish_stream flushes strictly fewer segments than there
\* are input fragments, and every flushed segment ends with exactly one space.
C8_CountingFewerFlushes ==
    script = "counting" =>
        /\ buffer_threshold = 50
        /\ \A i \in 1..Len(Segments(sent_messages)) :
                ExactlyOneTrailingSpace(Segments(sent_messages)[i])
        /\ (last_call.op = "finish" =>
                Len(Segments(sent_messages)) < Len(CountingTokens))

\* the counting run has been fed whole and finished, and has flushed
C8_Witness ==
    /\ script = "counting"
    /\ script_pos = Len(CountingTokens)
    /\ last_call.op = "finish"
    /\ Len(Segments(sent_messages)) = 1
    /\ buffer = <<>>

\* the case of C9: a fragment of length >= 2*threshold with no punctuation and
\* no whitespace, appended to an empty bufferer
HardCapCall ==
    /\ last_call.op = "append"
    /\ last_call.pre = <<>>
    /\ Len(last_call.text) >= 2 * buffer_threshold
    /\ NoPunctNoWhitespace(last_call.text)

HardCapFlushed ==
    /\ Emitted = <<AppendMsg(last_call.text \o <<Space>>)>>
    /\ buffer = <<>>

C10_SegmentsEndWithSpace ==
    /\ \A i \in 1..Len(Segments(sent_messages)) :
            LET t == Segments(sent_messages)[i]
            IN t # <<>> /\ t[Len(t)] = Space /\ StripNonEmpty(t)
    /\ \A i \in 1..Len(Segments(Emitted)) :
            LET t == Segments(Emitted)[i]
                pending == last_call.pre \o last_call.text
            IN \/ t = pending /\ EndsWithSpace(pending)
               \/ t = pending \o <<Space>> /\ ~EndsWithSpace(pending)

\* finish_stream has emitted a pending text that already ended with a space
C10_Witness ==
    /\ last_call.op = "finish"
    /\ Segments(Emitted) = <<last_call.pre>>
    /\ EndsWithSpace(last_call.pre)
    /\ Len(Segments(sent_messages)) >= 2

(***************************************************************************)
(* Claims about the exposed timeline                                       *)
(***************************************************************************)
RECURSIVE ConcatTimes(_)
ConcatTimes(chunks) ==
    IF chunks = <<>> THEN <<>>
    ELSE (IF chunks[1].is_final THEN <<>> ELSE chunks[1].char_start_times_ms)
         \o ConcatTimes(SubSeq(chunks, 2, Len(chunks)))

NonDecreasing(ts) == \A i \in 1..(Len(ts) - 1) : ts[i] <= ts[i + 1]

\* the durations computed for the first n audio messages, summed
RECURSIVE SumDurations(_, _)
SumDurations(ins, n) ==
    IF n = 0 THEN 0 ELSE SumDurations(ins, n - 1) + AudioDurationMs(ins[n].nbytes)

\* the provider's chunk-local starts are in order and lie within the chunk's audio
WellTimed(m) ==
    /\ NonDecreasing(m.local)
    /\ \A i \in 1..Len(m.local) : 0 <= m.local[i] /\ m.local[i] <= AudioDurationMs(m.nbytes)

\* C4 as claimed: for any utterance, the char_start_times_ms of the non-final
\* chunks receive_audio exposes, concatenated in order, are non-decreasing.
C4_TimelineNonDecreasing ==
    recv_path = "session" => NonDecreasing(ConcatTimes(recv_out))

\* C4 as amended: they are, when every chunk's provider-local start times are
\* non-negative, non-decreasing and no greater than the chunk's computed duration.
C4_TimelineNonDecreasingWellTimed ==
    (recv_path = "session" /\ \A k \in 1..Len(recv_in) : WellTimed(recv_in[k]))
        => NonDecreasing(ConcatTimes(recv_out))

\* two well-timed chunks with characters, the second shifted by the first's audio
C4_Witness ==
    /\ recv_path = "session"
    /\ recv_status = "ended"
    /\ Len(recv_in) = 2
    /\ \A k \in 1..2 : WellTimed(recv_in[k]) /\ Len(recv_in[k].local) = 2
    /\ recv_in[1].nbytes = 13230
    /\ ConcatTimes(recv_out) = <<0, 50, 300, 400>>

\* C5: in receive_audio and in stream_text, each exposed start time of chunk k
\* is the provider's chunk-local time plus the computed durations of the
\* chunks before it; 500 ms and 300 ms chunks with local times [0,100] and
\* [0,50] come out as [0,100] then [500,550].
C5_OffsetIsSumOfPriorDurations ==
    /\ Len(recv_out) >= Len(recv_in)
    /\ \A k \in 1..Len(recv_in) :
          LET times == recv_out[k].char_start_times_ms
              local == recv_in[k].local
          IN /\ ~recv_out[k].is_final
             /\ Len(times) = Len(local)
             /\ \A i \in 1..Len(local) :
                    times[i] = local[i] + SumDurations(recv_in, k - 1)

\* the claim's example, in stream_text
C5_Witness ==
    /\ recv_path = "streamer"
    /\ Len(recv_in) = 2
    /\ AudioDurationMs(recv_in[1].nbytes) = 500 /\ recv_in[1].local = <<0, 100>>
    /\ AudioDurationMs(recv_in[2].nbytes) = 300 /\ recv_in[2].local = <<0, 50>>
    /\ recv_out[1].char_start_times_ms = <<0, 100>>
    /\ recv_out[2].char_start_times_ms = <<500, 550>>

(***************************************************************************)
(* Claims about the coordinator                                            *)
(***************************************************************************)
\* producer p's handle_finish call takes the lock in this step
FinishEnters(p) ==
    \/ pc[p] = "f_lock" /\ pc'[p] # "f_lock"
    \/ /\ pc[p] = "idle" /\ call'[p].n = n_calls + 1
       /\ call'[p].op = "finish" /\ pc'[p] # "f_lock"

\* C1: a handle_finish that finds the coordinator not streaming returns
\* without error and is a no-op: no sentinel goes upstream, no completion
\* event is broadcast, and the upstream session, the forwarding task, the
\* accumulated utterance data and the consumer set are left as they were.
C1_FinishWhileIdleIsNoop ==
    [][\A p \in Producers :
          (FinishEnters(p) /\ (~is_streaming \/ el_session = <<>>))
              => /\ pc'[p] = "idle" /\ call'[p].result = "noop" /\ lock' = "free"
                 /\ UNCHANGED <<el_session, audio_task, is_streaming, full_text,
                                all_chars, all_times, all_durations,
                                total_audio_ms, chunk_count, flutter_clients,
                                bc, inbox, utt>>]_vars

\* a second finish right after a completed one has returned as a no-op
C1_Witness ==
    \E p \in Producers :
        /\ call[p].op = "finish" /\ call[p].result = "noop" /\ pc[p] = "idle"
        /\ utt.finish = "ok" /\ utt.completions = 1
        /\ ~is_streaming /\ n_calls = 3

\* C2: once the finish of an utterance driven as appends then one finish has
\* ended, and the upstream connection has not failed, one session was opened
\* for it, the upstream got exactly the appended texts in call order and then
\* one empty-text sentinel, and one completion broadcast was made.
C2_OneSessionAllSegmentsOneCompletion ==
    (utt.finish # "none" /\ ~utt.upfail)
        => /\ utt.sessions = 1
           /\ [i \in 1..Len(utt.out) |-> utt.out[i].text] = utt.appended \o << <<>> >>
           /\ utt.completions = 1

C6_FailedSendsAreIsolated ==
    bc.owner # "none" =>
        \A a \in BroadcastAdvance(World) :
            (a.end # "sending" /\ a.done.failed # {})
                => /\ a.end = "returned"
                   /\ a.done.missed = {}
                   /\ a.done.removed \subseteq a.done.failed
                   /\ a.w.flutter_clients \cap a.done.failed = {}

\* consumer c's handle_single_shot takes a step
ShotActs(c) ==
    \/ shot'[c] # shot[c]
    \/ n_shots' # n_shots /\ shot' = shot /\ inbox' = [inbox EXCEPT ![c] = inbox'[c]]

\* C7: a step of a single-shot request sends at most one chunk, complete or
\* error event, to the requesting consumer only, and leaves the shared
\* utterance state as it was, whether or not an utterance is being broadcast.
C7_SingleShotIsPrivate ==
    [][\A c \in Consumers :
          ShotActs(c)
              => /\ \A d \in Consumers \ {c} : inbox'[d] = inbox[d]
                 /\ \/ inbox'[c] = inbox[c]
                    \/ /\ Len(inbox'[c]) = Len(inbox[c]) + 1
                       /\ SubSeq(inbox'[c], 1, Len(inbox[c])) = inbox[c]
                       /\ inbox'[c][Len(inbox'[c])].type \in {"chunk", "complete", "error"}
                 /\ UNCHANGED <<full_text, all_chars, all_times, all_durations,
                                total_audio_ms, chunk_count, is_streaming,
                                el_session, audio_task, bc, flutter_clients>>]_vars

\* a single-shot has sent its requester a chunk while an utterance is being
\* broadcast to the other consumer
C7_Witness ==
    /\ is_streaming /\ bc.owner = "task" /\ bc.cur = "c2"
    /\ shot["c1"].st = "stream" /\ shot["c1"].chunk_count = 1
    /\ conn["c2"] = "open" /\ "c2" \in flutter_clients
    /\ inbox["c2"] = <<>>
    /\ inbox["c1"] # <<>> /\ inbox["c1"][Len(inbox["c1"])].type = "chunk"

\* producer p's call is inside the "async with self._lock" body
InBody(p) == pc[p] \in {"a_start", "a_send", "f_sentinel", "f_wait", "f_bcast"}

TaskRunning == audio_task \in {"recv", "bcast", "errbcast"}

\* C11: however append and finish calls from several producer connections
\* interleave, at most one call is inside a handler body and it holds the
\* lock; a forwarding task runs only for the one session the coordinator
\* holds; a new session is assigned only when the one before has no open
\* websocket, and a new task is created only when the one before has ended.
C11_OneSessionOneTaskSerialized ==
    /\ [](\A p, q \in Producers : (InBody(p) /\ InBody(q)) => p = q)
    /\ [](\A p \in Producers : InBody(p) => lock = p)
    /\ [](TaskRunning => el_session # <<>>)
    /\ [][\A p \in Producers :
            /\ (pc'[p] = "a_start" /\ pc[p] # "a_start")
                  => (~TaskRunning /\ (el_session # <<>> => el_session[1].ws # "open"))
            /\ (pc[p] = "a_start" /\ pc'[p] = "a_send") => ~TaskRunning]_vars

\* an append is sending on the open session with its task running while a
\* call from the other connection is queued on the lock
C11_Witness ==
    /\ pc["p1"] = "a_send" /\ lock = "p1" /\ waiters = <<"p2">>
    /\ pc["p2"] \in {"a_lock", "f_lock"}
    /\ el_session # <<>> /\ el_session[1].ws = "open" /\ TaskRunning
    /\ call["p1"].n = 2

\* C12: a consumer connecting or disconnecting while a broadcast is suspended
\* in a send does not make it fail: when the broadcast ends it has not
\* raised, and it has attempted the send to every consumer that was in the
\* set when it began and is still connected.
C12_BroadcastSurvivesSetChanges ==
    bc.owner # "none" =>
        \A a \in BroadcastAdvance(World) :
            a.end # "sending" => (a.end = "returned" /\ a.done.missed = {})

(***************************************************************************)
(* Claims about the session's sending side                                 *)
(***************************************************************************)
\* the messages of ms other than the end-of-input sentinel
RECURSIVE TextMessages(_)
TextMessages(ms) ==
    IF ms = <<>> THEN <<>>
    ELSE (IF ms[1] = Sentinel THEN <<>> ELSE <<ms[1]>>)
         \o TextMessages(SubSeq(ms, 2, Len(ms)))

SentinelSent(s) == \E i \in 1..Len(s.out) : s.out[i] = Sentinel

\* C13: once finish() has sent the sentinel on a started session the session
\* is marked finished; a later send_text raises and transmits nothing, a
\* later finish() transmits nothing, so the sentinel is the last message the
\* upstream ever gets.
C13_FinishedSessionRejectsText ==
    /\ SentinelSent(recv_sess) => recv_sess.finished
    /\ (sess_call.op = "send_text" /\ SentinelSent(sess_call.pre))
          => (sess_call.raised /\ recv_sess.out = sess_call.pre.out)
    /\ (sess_call.op = "finish" /\ SentinelSent(sess_call.pre))
          => recv_sess.out = sess_call.pre.out
    /\ \A i \in 1..Len(recv_sess.out) :
          recv_sess.out[i] = Sentinel => i = Len(recv_sess.out)

\* send_text has raised on a session that is started, connected and finished
\* after a text and the sentinel
C13_Witness ==
    /\ sess_call.op = "send_text" /\ sess_call.raised
    /\ sess_call.pre.started /\ sess_call.pre.ws = "open"
    /\ Len(recv_sess.out) = 2 /\ recv_sess.out[2] = Sentinel

\* C14: in one session the first send_text after start builds and sends the
\* text with the voice settings, generation config and credential and with
\* try_trigger_generation true; every later one has none of these and the
\* flag false.
C14_SettingsOnFirstTextOnly ==
    /\ recv_sess.first_text_sent <=> sess_call.built > 0
    /\ LET ms == TextMessages(recv_sess.out)
       IN \A i \in 1..Len(ms) :
            /\ ms[i].settings <=> i = 1
            /\ ms[i].try_trigger_generation = IF i = 1 THEN "true" ELSE "false"
    /\ (sess_call.op = "send_text" /\ ~sess_call.raised)
          => LET m == recv_sess.out[Len(recv_sess.out)]
             IN /\ m.text = sess_call.text
                /\ m.settings <=> sess_call.built = 1

\* three texts sent on one session
C14_Witness ==
    /\ sess_call.op = "send_text" /\ ~sess_call.raised /\ sess_call.built = 3
    /\ Len(TextMessages(recv_sess.out)) = 3

(***************************************************************************)
(* Claims about the end of the chunk sequence                              *)
(***************************************************************************)
\* C15: however the upstream stream ends (final marker, connection closed,
\* transport error message, provider error payload), the chunks receive_audio
\* has produced end with a final chunk: no audio, empty arrays, is_final.
C15_AlwaysEndsWithFinalChunk ==
    (recv_path = "session" /\ recv_status \in {"ended", "raised"})
        => /\ recv_out # <<>>
           /\ recv_out[Len(recv_out)] = FinalChunk(recv_sess.chunk_index)

(***************************************************************************)
(* Claims about errors and timeouts in the coordinator                     *)
(***************************************************************************)
\* C16: when the provider has sent an error payload during an utterance and
\* the forwarding task has dealt with it (the error event has been broadcast
\* and the task has ended), the coordinator is IDLE, streaming flag false and
\* upstream session closed and dropped, with no finish call needed.
C16_UpstreamErrorResetsToIdle ==
    (utt.provider_error /\ ~TaskRunning)
        => (~is_streaming /\ el_session = <<>>)

\* C17: when the wait in finish expired, the task was cancelled and awaited:
\* from then on no step of that utterance's task runs, and the finish ends
\* as a normal one, with one completion broadcast, the upstream session
\* closed and dropped, the task dropped and the coordinator IDLE.
C17_TimeoutFinishesNormally ==
    /\ utt.timed_out => (~TaskRunning /\ bc.owner \notin {"task", "task_err"})
    /\ (utt.timed_out /\ utt.finish # "none")
          => /\ utt.finish = "ok" /\ utt.completions = 1
             /\ ~is_streaming /\ el_session = <<>> /\ audio_task = "none"

\* producer p's handle_append_text call takes the lock in this step
AppendEnters(p) ==
    \/ pc[p] = "a_lock" /\ pc'[p] # "a_lock"
    \/ /\ pc[p] = "idle" /\ call'[p].n = n_calls + 1
       /\ call'[p].op = "append" /\ pc'[p] # "a_lock"

\* C18: when the session open of an append made in IDLE fails, the append
\* raises to its caller and the coordinator is IDLE as before: streaming
\* flag false, no forwarding task, no text recorded, nothing sent upstream,
\* no second open by that call; and an append that finds the coordinator
\* IDLE always begins by opening a fresh session.
C18_FailedOpenStaysIdle ==
    [][\A p \in Producers :
          /\ (pc[p] = "a_start" /\ pc'[p] = "idle")
                => /\ call'[p].result = "raised" /\ lock' = "free"
                   /\ ~is_streaming' /\ audio_task' = "none"
                   /\ full_text' = <<>> /\ all_chars' = <<>>
                   /\ el_session'[1].ws = "none" /\ ~el_session'[1].started
                   /\ utt'.out = utt.out /\ utt'.sessions = utt.sessions
                   /\ UNCHANGED <<flutter_clients, inbox, bc>>
          /\ (AppendEnters(p) /\ ~is_streaming)
                => /\ pc'[p] = "a_start" /\ el_session' = <<NewSession>>
                   /\ utt'.sessions = IF utt'.n = utt.n THEN utt.sessions + 1 ELSE 1]_vars

\* after an append whose open failed, the next append has opened a session
\* and sent its text on it
C18_Witness ==
    /\ utt.n = 1 /\ utt.sessions = 2 /\ Len(utt.appended) = 2
    /\ is_streaming /\ audio_task = "recv" /\ full_text = TextOf(2)
    /\ el_session[1].ws = "open" /\ Len(el_session[1].out) = 1

\* C19: an append that arrived while a finish held the lock takes the lock
\* only when that finish has completed its cleanup (streaming flag false,
\* session closed and dropped, task dropped), and then starts a fresh
\* utterance: a new session is assigned for it, the text, alignment arrays,
\* total duration and chunk count are empty or zero, and nothing of it goes
\* to the session that was finishing.
C19_AppendBehindFinishStartsFresh ==
    [][\A p \in Producers :
          (pc[p] = "a_lock" /\ pc'[p] # "a_lock" /\ call[p].behind = "finish")
              => /\ ~is_streaming /\ el_session = <<>> /\ audio_task = "none"
                 /\ pc'[p] = "a_start" /\ el_session' = <<NewSession>>
                 /\ full_text' = <<>> /\ all_chars' = <<>> /\ all_times' = <<>>
                 /\ all_durations' = <<>> /\ total_audio_ms' = 0
                 /\ chunk_count' = 0]_vars

(***************************************************************************)
(* Claims about what one consumer receives                                 *)
(***************************************************************************)
\* the chunk and complete events of a consumer's inbox, in order
RECURSIVE UtteranceEvents(_)
UtteranceEvents(box) ==
    IF box = <<>> THEN <<>>
    ELSE (IF box[1].type \in {"chunk", "complete"} THEN <<box[1]>> ELSE <<>>)
         \o UtteranceEvents(SubSeq(box, 2, Len(box)))

\* C20: the events a consumer has received since it connected are in
\* broadcast order: a chunk event that follows a chunk event has the next
\* chunk_index, the first chunk event after a complete event (the next
\* utterance's, the consumer having been connected throughout) has index 0,
\* and a completion event is broadcast only when the forwarding task has
\* ended, so that no chunk of the utterance follows it.
C20_PerConsumerOrder ==
    /\ \A c \in Consumers :
          LET es == UtteranceEvents(inbox[c])
          IN \A i \in 2..Len(es) :
                es[i].type = "chunk"
                    => es[i].chunk_index = IF es[i - 1].type = "chunk"
                                           THEN es[i - 1].chunk_index + 1 ELSE 0
    /\ bc.msg.type = "complete" => ~TaskRunning

(***************************************************************************)
(* Claims about the bufferer's finish and its flush decision               *)
(***************************************************************************)
\* C21: when finish_stream has returned the pending buffer is empty, whatever
\* happened in the call (client not connected, residual flush failed, or
\* success); and when it sent the finish signal with a pending text that was
\* non-empty after trimming, it emitted that text with the trailing-space
\* rule before the signal.
C21_FinishLeavesBufferEmpty ==
    last_call.op = "finish"
        => /\ buffer = <<>>
           /\ (StripNonEmpty(last_call.pre) /\ Emitted # <<>>
                  /\ Emitted[Len(Emitted)] = FinishMsg)
                 => Emitted = <<AppendMsg(TextToSend(last_call.pre)), FinishMsg>>

(***************************************************************************)
(* Claims about the status query                                           *)
(***************************************************************************)
\* C22: in every state the status query's producer-attached flag is true
\* exactly when some producer connection (on /agent, or a legacy connection
\* promoted to agent) is open, its consumer count is the number of
\* connections in the broadcast set, and its streaming flag tells whether an
\* utterance is active.
C22_StatusTellsConnections ==
    /\ Health.agent_connected
          <=> \E p \in Producers : agent_conn[p] \in {"agent", "legacy_agent"}
    /\ Health.flutter_clients
          = Cardinality({c \in Consumers : c \in flutter_clients})
            + Cardinality({p \in Producers : agent_conn[p] = "legacy"})
    /\ Health.is_streaming <=> is_streaming

(***************************************************************************)
(* Claims about how a finish ends                                          *)
(***************************************************************************)
\* C23: a finish called while the coordinator is STREAMING ends by returning
\* to its caller with the coordinator IDLE (streaming flag false, session
\* and task dropped) and the mutex released, whether the upstream stream
\* ended normally, never ended, or had closed or failed before the call.
C23_FinishReturnsIdle ==
    [][(utt.finish = "none" /\ utt'.finish # "none")
          => /\ utt'.finish = "ok"
             /\ ~is_streaming' /\ el_session' = <<>> /\ audio_task' = "none"
             /\ lock' = "free"]_vars

(***************************************************************************)
(* Claims about the flush decision and the hard cap                        *)
(***************************************************************************)
\* the pending text the last append_text call decided on
Pending == last_call.pre \o last_call.text

\* the append_text call got past ensure_connected and took its decision
Decided == last_call.op = "append" /\ (last_call.was_connected \/ connected)

\* the ordered rule as the specification words it
FlushRule(buf, thr) ==
    \/ Len(buf) >= 2 * thr
    \/ /\ Len(buf) >= 10
       /\ RStrip(buf) # <<>> /\ RStrip(buf)[Len(RStrip(buf))] \in SentenceEnd
    \/ /\ Len(buf) >= thr
       /\ \/ Contains(LastChars(buf, 20), Commas)
          \/ (buf # <<>> /\ buf[Len(buf)] \in Whitespace)

\* C24: after a fragment is concatenated to the pending text, the flush
\* decision is that of the ordered rule: flush iff len >= 2*threshold, or
\* len >= 10 and the right-trimmed pending ends with a sentence-terminal mark,
\* or len >= threshold and the last min(20, len) characters contain a comma
\* or the pending text ends in whitespace.
C24_DecisionIsOrderedRule ==
    Decided => (ShouldFlushBuffer(Pending, buffer_threshold)
                    <=> FlushRule(Pending, buffer_threshold))

\* C25: after an append_text call that returned without raising, the pending
\* buffer is shorter than twice the threshold, and it is empty when the
\* call's flush decision was true.
C25_HardCapBoundsPending ==
    (Decided /\ ~last_call.raised)
        => /\ Len(buffer) < 2 * buffer_threshold
           /\ ShouldFlushBuffer(Pending, buffer_threshold) => buffer = <<>>

(***************************************************************************)
(* Claims about the test double                                            *)
(***************************************************************************)
\* C26: after every append_text and finish_stream call made on a connected
\* DirectTTSClient whose sends succeed and on a MockDirectTTSClient of the
\* same threshold, the two have emitted the same sequence of segments and
\* hold the same pending buffer.
C26_MockEmitsTheSame ==
    /\ Segments(mock.sent) = Segments(sent_messages)
    /\ mock.buffer = buffer

\* both have emitted a segment in an append and one in a finish, and a
\* further append has left text pending in both
C26_Witness ==
    /\ last_call.op = "append" /\ n_fragments = 3
    /\ Len(Segments(sent_messages)) = 2 /\ Len(Segments(mock.sent)) = 2
    /\ Len(sent_messages) = 3 /\ sent_messages[3] = FinishMsg
    /\ buffer # <<>> /\ mock.buffer # <<>>

(***************************************************************************)
(* Claims about a consumer that stalls                                     *)
(***************************************************************************)
\* C27: the delivery of an event to one consumer waits for no other
\* consumer's send: while broadcast_to_clients is suspended in the send to
\* one consumer (which a stalled connection never completes), every other
\* open consumer of the set has been given the event already, and the
\* forwarding task is not held from receiving the next upstream chunk.
C27_FanOutIndependent ==
    bc.owner # "none"
        => /\ \A d \in (bc.start \cap flutter_clients) \ {bc.cur} :
                  conn[d] = "open" => d \in bc.visited
           /\ bc.owner = "task" => audio_task # "bcast"

(***************************************************************************)
(* Claims about the agent's calls                                          *)
(***************************************************************************)
\* the operations of the agent's calls for response r, in order
RECURSIVE CallsOf(_, _)
CallsOf(cs, r) ==
    IF cs = <<>> THEN <<>>
    ELSE (IF cs[1].response = r THEN <<cs[1].op>> ELSE <<>>)
         \o CallsOf(SubSeq(cs, 2, Len(cs)), r)

\* C28: the agent's calls for every response it has done with are zero or
\* more append_text calls followed by exactly one finish_stream, also when
\* the LLM stream or an append failed part-way; and the calls of a later
\* response all come after those of an earlier one.
C28_AppendsThenOneFinish ==
    /\ \A r \in 1..agent.response :
          (r < agent.response \/ ~agent.streaming)
              => LET ops == CallsOf(agent.calls, r)
                 IN /\ ops # <<>> /\ ops[Len(ops)] = "finish"
                    /\ \A i \in 1..(Len(ops) - 1) : ops[i] = "append"
    /\ \A i, j \in 1..Len(agent.calls) :
          i < j => agent.calls[i].response <= agent.calls[j].response

(***************************************************************************)
(* Claims about upstream resources                                         *)
(***************************************************************************)
\* C29: whenever the coordinator is IDLE (streaming flag false) and no append
\* or finish call is executing, no forwarding task is running and the
\* coordinator holds no session whose HTTP client session or websocket is
\* open, after a timeout cancellation and after a failed session open too.
C29_IdleHoldsNoUpstream ==
    (~is_streaming /\ \A p \in Producers : pc[p] = "idle")
        => /\ ~TaskRunning
           /\ \A i \in 1..Len(el_session) :
                 ~el_session[i].http /\ el_session[i].ws # "open"

(***************************************************************************)
(* Claims about durations                                                  *)
(***************************************************************************)
\* floor(byteLength * 1000 / (2 * 22050))
FloorDurationMs(nbytes) == (nbytes * 1000) \div (2 * 22050)

RECURSIVE SumFloorDurations(_, _)
SumFloorDurations(ins, n) ==
    IF n = 0 THEN 0
    ELSE SumFloorDurations(ins, n - 1) + FloorDurationMs(ins[n].nbytes)

\* C30: each chunk's duration is floor(byteLength * 1000 / (2 * 22050))
\* milliseconds, so that after any number of audio chunks the upstream
\* session's cumulative offset is the sum of those floors over the chunks
\* received.
C30_DurationIsFloorOfBytes ==
    recv_path = "session"
        => recv_sess.offset_ms = SumFloorDurations(recv_in, Len(recv_in))

\* C31: every AudioChunk yielded by receive_audio or stream_text has chars,
\* char_start_times_ms and char_durations_ms of the same length, whatever
\* arrays the provider's alignment carries
C31_ArraysOfEqualLength ==
    \A k \in 1..Len(recv_out) :
        /\ Len(recv_out[k].chars) = Len(recv_out[k].char_start_times_ms)
        /\ Len(recv_out[k].chars) = Len(recv_out[k].char_durations_ms)

\* a segment with the space its flush appended taken off again: the segment
\* itself when the flush appended none
Unpadded(seg) ==
    {seg} \cup (IF EndsWithSpace(seg) THEN {SubSeq(seg, 1, Len(seg) - 1)} ELSE {})

\* the texts the segments segs can stand for, joined
RECURSIVE UnpaddedJoins(_)
UnpaddedJoins(segs) ==
    IF segs = <<>> THEN {<<>>}
    ELSE { u \o rest : u \in Unpadded(segs[1]),
                       rest \in UnpaddedJoins(SubSeq(segs, 2, Len(segs))) }

\* C32: on a connected client whose sends succeed no text is lost, duplicated
\* or reordered: after each append_text the segments it emitted, without the
\* space a flush appended, followed by the pending text are the earlier
\* pending text followed by the fragment; finish_stream emits the pending
\* text, or nothing when it is only whitespace, and leaves nothing pending
C32_NoTextLost ==
    [][ /\ last_call'.op = "append"
           => \E u \in UnpaddedJoins(Segments(Emitted')) :
                  u \o buffer' = last_call'.pre \o last_call'.text
        /\ last_call'.op = "finish"
           => /\ buffer' = <<>>
              /\ IF StripNonEmpty(last_call'.pre)
                 THEN last_call'.pre \in UnpaddedJoins(Segments(Emitted'))
                 ELSE Segments(Emitted') = <<>> ]_vars

\* a finish flushed a pending text that did not end in a space, after an
\* earlier segment had been flushed
C32_Witness ==
    /\ last_call.op = "finish"
    /\ Segments(Emitted) = <<last_call.pre \o <<Space>> >>
    /\ Len(Segments(sent_messages)) >= 2

\* C33: an append_text whose flush fails raises, sends nothing, keeps the
\* whole pending text (the fragment included) and marks the client
\* disconnected; and every later call keeps the pending text until it is
\* sent, whole and once: a call that emits a segment emits the pending text
\* (and the fragment) and leaves nothing pending, a call that emits none
\* leaves it pending, except that finish_stream on a connected client
\* discards a pending text that is only whitespace
C33_FailedFlushKeepsText ==
    [][ /\ (last_call'.op = "append" /\ last_call'.raised)
           => /\ ~connected'
              /\ Emitted' = <<>>
              /\ buffer' \in {last_call'.pre, last_call'.pre \o last_call'.text}
              /\ last_call'.was_connected
                 => buffer' = last_call'.pre \o last_call'.text
        /\ (last_call'.op = "append" /\ ~last_call'.raised)
           => \E u \in UnpaddedJoins(Segments(Emitted')) :
                  u \o buffer' = last_call'.pre \o last_call'.text
        /\ last_call'.op = "finish"
           => IF Segments(Emitted') # <<>>
              THEN /\ buffer' = <<>>
                   /\ last_call'.pre \in UnpaddedJoins(Segments(Emitted'))
              ELSE \/ buffer' = last_call'.pre
                   \/ (last_call'.was_connected /\ ~StripNonEmpty(last_call'.pre)
                       /\ buffer' = <<>>) ]_vars

\* an append_text on a connected client has raised from its flush
C33_Witness ==
    /\ last_call.op = "append"
    /\ last_call.raised
    /\ last_call.was_connected
    /\ StripNonEmpty(buffer)
    /\ buffer = last_call.pre \o last_call.text
    /\ ~connected

\* after it, an append_text has reconnected and sent the text kept
C33_Resent ==
    /\ last_call.op = "append"
    /\ ~last_call.was_connected
    /\ n_failures = 1
    /\ StripNonEmpty(last_call.pre)
    /\ Segments(Emitted) = <<TextToSend(last_call.pre \o last_call.text)>>
    /\ buffer = <<>>

(***************************************************************************)
(* Claims about progress                                                   *)
(***************************************************************************)
\* C34: no call is stuck: a queued call waits behind a call that is inside
\* the lock, or is given the lock; a call inside the lock has its next step
\* enabled; and while handle_finish holds the lock awaiting the forwarding
\* task, the task's own steps are enabled without the lock and the wait ends
\* with the task or with the timeout
C34_NoDeadlock ==
    \A p \in Producers :
        /\ pc[p] \in {"a_lock", "f_lock"}
           => \/ (lock \in Producers /\ InBody(lock))
              \/ ENABLED LockGranted
        /\ pc[p] = "a_start" => lock = p /\ ENABLED AppendStart
        /\ pc[p] = "a_send" => lock = p /\ ENABLED AppendSend
        /\ pc[p] = "f_sentinel" => lock = p /\ ENABLED FinishSentinelSent
        /\ pc[p] = "f_bcast" => lock = p /\ ENABLED BroadcastStep
        /\ pc[p] = "f_wait"
           => /\ lock = p
              /\ ENABLED FinishTaskEnded \/ ENABLED FinishTimeout
              /\ audio_task \in {"bcast", "errbcast"} => ENABLED BroadcastStep
              /\ (audio_task = "recv" /\ UpstreamMessages(el_session[1]) # {})
                 => ENABLED TaskStep

\* a finish holds the lock awaiting the task, which is suspended in a
\* broadcast, and another call is queued behind it
C34_Witness ==
    /\ pc["p1"] = "f_wait"
    /\ lock = "p1"
    /\ audio_task = "bcast"
    /\ pc["p2"] \in {"a_lock", "f_lock"}

(***************************************************************************)
(* Claims about what a steady consumer receives                            *)
(***************************************************************************)
\* the chars of the chunk events among es[from..to]
RECURSIVE CharsDelivered(_, _, _)
CharsDelivered(es, from, to) ==
    IF from > to THEN 0
    ELSE (IF es[from].type = "chunk" THEN Len(es[from].chars) ELSE 0)
         + CharsDelivered(es, from + 1, to)

\* the place of the completion event before es[i], 0 when there is none
RECURSIVE CompleteBefore(_, _)
CompleteBefore(es, i) ==
    IF i <= 1 THEN 0
    ELSE IF es[i - 1].type = "complete" THEN i - 1
    ELSE CompleteBefore(es, i - 1)

\* C35: every completion event a steady consumer (connected since before
\* the first call, no send to it failing) has received carries as
\* total_chars the number of chars in the chunk events it received since
\* the completion event before
C35_DeliveredCharsAreTotal ==
    \A c \in limits.steady :
        conn[c] = "open"
            => \A i \in 1..Len(inbox[c]) :
                   inbox[c][i].type = "complete"
                       => inbox[c][i].total_chars
                            = CharsDelivered(inbox[c], CompleteBefore(inbox[c], i) + 1, i - 1)

(***************************************************************************)
(* Claims about single-shot requests beside a broadcast                    *)
(***************************************************************************)
\* C36: while a consumer's single-shot request is between its first chunk
\* event and its complete or error event, nothing but that request sends a
\* chunk or complete event to the consumer's connection: a step that is not
\* the request's own adds no such event to what the consumer has received
C36_ShotNotInterleaved ==
    [][ \A c \in Consumers :
            (shot[c].st = "stream" /\ shot[c].chunk_count > 0 /\ shot'[c] = shot[c])
                => \/ inbox'[c] = inbox[c]
                   \/ /\ Len(inbox'[c]) = Len(inbox[c]) + 1
                      /\ SubSeq(inbox'[c], 1, Len(inbox[c])) = inbox[c]
                      /\ inbox'[c][Len(inbox'[c])].type \notin {"chunk", "complete"} ]_vars

(***************************************************************************)
(* Claims about producer connections that come and go                      *)
(***************************************************************************)
\* C37: the disconnect of a producer connection changes nothing but the
\* registration of the producer: streaming flag, upstream session,
\* forwarding task, accumulated utterance, lock and consumers are as
\* before; and an append that finds the coordinator streaming, from whatever
\* connection, opens no session: it goes to the session in place and, when
\* its send succeeds, its text is added to the text accumulated, in the same
\* utterance when that has had no finish
C37_DisconnectLeavesUtterance ==
    [][\A p \in Producers :
          /\ (agent_conn[p] # "closed" /\ agent_conn'[p] = "closed")
                => UNCHANGED <<is_streaming, el_session, audio_task, full_text,
                               all_chars, all_times, all_durations, total_audio_ms,
                               chunk_count, utt, lock, waiters, pc, call, bc,
                               flutter_clients, conn, inbox>>
          /\ (AppendEnters(p) /\ is_streaming /\ el_session # <<>>)
                => /\ pc'[p] = "a_send"
                   /\ UNCHANGED <<is_streaming, el_session, audio_task, full_text>>
                   /\ utt.finish = "none"
                         => /\ utt'.n = utt.n
                            /\ utt'.sessions = utt.sessions
                            /\ utt'.appended = Append(utt.appended, call'[p].text)
          /\ (pc[p] = "a_send" /\ pc'[p] = "idle" /\ call'[p].result = "ok")
                => /\ full_text' = full_text \o call[p].text
                   /\ Len(el_session'[1].out) = Len(el_session[1].out) + 1
                   /\ el_session'[1].out[Len(el_session'[1].out)].text = call[p].text
                   /\ utt'.sessions = utt.sessions /\ utt'.n = utt.n]_vars

\* the connection that made the first append has disconnected, and the
\* append of the connection after it has gone to the same session and the
\* same utterance
C37_Witness ==
    /\ agent_conn["p1"] = "closed" /\ agent_conn["p2"] = "agent"
    /\ call["p1"].n = 1 /\ call["p1"].op = "append" /\ call["p1"].result = "ok"
    /\ call["p2"].n = 2 /\ call["p2"].op = "append" /\ call["p2"].result = "ok"
    /\ is_streaming
    /\ utt.n = 1 /\ utt.sessions = 1 /\ utt.finish = "none"
    /\ full_text = TextOf(1) \o TextOf(2)
    /\ Len(el_session[1].out) = 2

(***************************************************************************)
(* Claims about the text of the completion event                           *)
(***************************************************************************)
\* the texts of the upstream messages ms, joined
RECURSIVE JoinedTexts(_)
JoinedTexts(ms) ==
    IF ms = <<>> THEN <<>>
    ELSE ms[1].text \o JoinedTexts(SubSeq(ms, 2, Len(ms)))

\* the finish of producer p builds its completion event in this step
BuildsCompletion(p) ==
    /\ pc[p] # "f_bcast"
    /\ \/ pc'[p] = "f_bcast"
       \/ /\ pc'[p] = "idle" /\ call'[p].op = "finish"
          /\ utt'.completions = utt.completions + 1

\* C38: the text of a completion event is the texts, joined in call order,
\* of the appends of its utterance whose send to the upstream session
\* succeeded: nothing of an append whose send raised, nothing of an earlier
\* utterance
C38_CompleteTextIsSentText ==
    [][\A p \in Producers :
          BuildsCompletion(p)
              => /\ utt'.complete.type = "complete"
                 /\ utt'.complete.text = JoinedTexts(utt'.out)]_vars

(***************************************************************************)
(* Claims about appends that are dropped                                   *)
(***************************************************************************)
\* C39: whenever the streaming flag is true and no append or finish is
\* executing, the coordinator holds an upstream session and a forwarding
\* task; and every append that returns without raising returns from its
\* send_text, its text being the message added to what the session has sent
C39_NoAppendDropped ==
    /\ []((is_streaming /\ \A p \in Producers : pc[p] = "idle")
            => el_session # <<>> /\ audio_task # "none")
    /\ [][\A p \in Producers :
             (/\ call'[p].op = "append" /\ call'[p].result = "ok"
              /\ pc'[p] = "idle"
              /\ pc[p] # "idle" \/ call'[p].n # call[p].n)
                => /\ pc[p] = "a_send"
                   /\ el_session # <<>> /\ el_session' # <<>>
                   /\ Len(el_session'[1].out) = Len(el_session[1].out) + 1
                   /\ el_session'[1].out[Len(el_session'[1].out)].text = call'[p].text]_vars

\* the second append of a streaming utterance has returned, its text sent,
\* and no call is executing
C39_Witness ==
    /\ is_streaming /\ \A p \in Producers : pc[p] = "idle"
    /\ call["p1"].n = 2 /\ call["p1"].op = "append" /\ call["p1"].result = "ok"
    /\ utt.sessions = 1
    /\ Len(el_session[1].out) = 2 /\ el_session[1].out[2].text = TextOf(2)

====
